---- MODULE Spec2Model ----
(***************************************************************************)
(* CommunityCare (src/app.py): a report system on a PostgreSQL database.   *)
(* The model holds the four tables of init_database, and for every session *)
(* (one run of main(page)) the closure variable current_user, the screen   *)
(* that is shown, the ids the shown list offers, and the last snack bar.   *)
(* SQL statements are operators on a database record, with PostgreSQL's    *)
(* UNIQUE and REFERENCES checks and SERIAL sequences.                      *)
(*                                                                         *)
(* A callback is taken one database statement at a time: every statement   *)
(* is committed or read on its own, so the statements of another session   *)
(* may come between two of them.  pc[s] is the statement session s runs    *)
(* next ("idle" between callbacks) and frame[s] holds the arguments and    *)
(* locals of its call.  A snack bar or a page.clean() that follows a       *)
(* statement is taken with it; the screen is "blank" from the page.clean() *)
(* of a dashboard until its page.add().  A callback with one statement is  *)
(* one action.                                                             *)
(*                                                                         *)
(* Spec drives one session through the controls its screens offer; SpecApi *)
(* lets the callbacks of the admin lists take the id of any row, also one  *)
(* that is gone; Spec2 runs two sessions that log in, as the admin or as   *)
(* alice, and work at the admin lists; SpecRegister has two sessions       *)
(* register; SpecRestart has one session at its screens, within a smaller  *)
(* bound, and the process started again, which runs init_database on the   *)
(* database as it is; SpecUpdates is Spec on a database that holds a       *)
(* report, with room for several status updates of it.                     *)
(*                                                                         *)
(* The two file pickers are in the page's overlay on every screen, and     *)
(* picking[s] holds those whose window is open: a picker opened at the     *)
(* report form may answer after the session has gone on to another screen. *)
(*                                                                         *)
(* Text: a Python None or empty value is "" (or <<>> for a dropdown), an   *)
(* f-string is the tuple of its literal part and its arguments, and a      *)
(* dropdown option is the sequence of its space-separated words, with an   *)
(* emoji written as its code point ("U+1F697"); the emoji at the end of a  *)
(* snack bar's text is left out.                                           *)
(***************************************************************************)
EXTENDS Integers, Sequences, FiniteSets, TLC

VARIABLES users, users_seq, reports, reports_seq, notifications, admin_logs,
          current_user, screen, listed, snack, pc, frame, picking

vars == <<users, users_seq, reports, reports_seq, notifications, admin_logs,
          current_user, screen, listed, snack, pc, frame, picking>>

dbvars == <<users, users_seq, reports, reports_seq, notifications, admin_logs>>

(*************************** bounds of the model ***************************)
\* values the sequences users_id_seq and reports_id_seq have handed out plus
\* rows of admin_logs: a callback that may add to them is not taken at the bound
MaxRows == 4
\* rows of notifications: update_report_status is not begun at the bound
MaxNotifications == 2

Sessions == {"s1", "s2"}
\* the session of a run as a desktop application
Desk == {"s1"}

None == 0

(******************************* text **************************************)
\* [a-zA-Z]
Letters == {"a","b","c","d","e","f","g","h","i","j","k","l","m","n","o","p","q",
            "r","s","t","u","v","w","x","y","z",
            "A","B","C","D","E","F","G","H","I","J","K","L","M","N","O","P","Q",
            "R","S","T","U","V","W","X","Y","Z"}
\* [0-9]
Digits == {"0","1","2","3","4","5","6","7","8","9"}
\* \d: re matches a str pattern against every Unicode decimal digit, the ten of
\* ASCII and 650 more in blocks of ten; a character outside ASCII is written as
\* its code point
DecimalDigits ==
  Digits \cup
  {"U+0660","U+0661","U+0662","U+0663","U+0664","U+0665","U+0666","U+0667","U+0668","U+0669",
   "U+06F0","U+06F1","U+06F2","U+06F3","U+06F4","U+06F5","U+06F6","U+06F7","U+06F8","U+06F9",
   "U+07C0","U+07C1","U+07C2","U+07C3","U+07C4","U+07C5","U+07C6","U+07C7","U+07C8","U+07C9",
   "U+0966","U+0967","U+0968","U+0969","U+096A","U+096B","U+096C","U+096D","U+096E","U+096F",
   "U+09E6","U+09E7","U+09E8","U+09E9","U+09EA","U+09EB","U+09EC","U+09ED","U+09EE","U+09EF",
   "U+0A66","U+0A67","U+0A68","U+0A69","U+0A6A","U+0A6B","U+0A6C","U+0A6D","U+0A6E","U+0A6F",
   "U+0AE6","U+0AE7","U+0AE8","U+0AE9","U+0AEA","U+0AEB","U+0AEC","U+0AED","U+0AEE","U+0AEF",
   "U+0B66","U+0B67","U+0B68","U+0B69","U+0B6A","U+0B6B","U+0B6C","U+0B6D","U+0B6E","U+0B6F",
   "U+0BE6","U+0BE7","U+0BE8","U+0BE9","U+0BEA","U+0BEB","U+0BEC","U+0BED","U+0BEE","U+0BEF",
   "U+0C66","U+0C67","U+0C68","U+0C69","U+0C6A","U+0C6B","U+0C6C","U+0C6D","U+0C6E","U+0C6F",
   "U+0CE6","U+0CE7","U+0CE8","U+0CE9","U+0CEA","U+0CEB","U+0CEC","U+0CED","U+0CEE","U+0CEF",
   "U+0D66","U+0D67","U+0D68","U+0D69","U+0D6A","U+0D6B","U+0D6C","U+0D6D","U+0D6E","U+0D6F",
   "U+0DE6","U+0DE7","U+0DE8","U+0DE9","U+0DEA","U+0DEB","U+0DEC","U+0DED","U+0DEE","U+0DEF",
   "U+0E50","U+0E51","U+0E52","U+0E53","U+0E54","U+0E55","U+0E56","U+0E57","U+0E58","U+0E59",
   "U+0ED0","U+0ED1","U+0ED2","U+0ED3","U+0ED4","U+0ED5","U+0ED6","U+0ED7","U+0ED8","U+0ED9",
   "U+0F20","U+0F21","U+0F22","U+0F23","U+0F24","U+0F25","U+0F26","U+0F27","U+0F28","U+0F29",
   "U+1040","U+1041","U+1042","U+1043","U+1044","U+1045","U+1046","U+1047","U+1048","U+1049",
   "U+1090","U+1091","U+1092","U+1093","U+1094","U+1095","U+1096","U+1097","U+1098","U+1099",
   "U+17E0","U+17E1","U+17E2","U+17E3","U+17E4","U+17E5","U+17E6","U+17E7","U+17E8","U+17E9",
   "U+1810","U+1811","U+1812","U+1813","U+1814","U+1815","U+1816","U+1817","U+1818","U+1819",
   "U+1946","U+1947","U+1948","U+1949","U+194A","U+194B","U+194C","U+194D","U+194E","U+194F",
   "U+19D0","U+19D1","U+19D2","U+19D3","U+19D4","U+19D5","U+19D6","U+19D7","U+19D8","U+19D9",
   "U+1A80","U+1A81","U+1A82","U+1A83","U+1A84","U+1A85","U+1A86","U+1A87","U+1A88","U+1A89",
   "U+1A90","U+1A91","U+1A92","U+1A93","U+1A94","U+1A95","U+1A96","U+1A97","U+1A98","U+1A99",
   "U+1B50","U+1B51","U+1B52","U+1B53","U+1B54","U+1B55","U+1B56","U+1B57","U+1B58","U+1B59",
   "U+1BB0","U+1BB1","U+1BB2","U+1BB3","U+1BB4","U+1BB5","U+1BB6","U+1BB7","U+1BB8","U+1BB9",
   "U+1C40","U+1C41","U+1C42","U+1C43","U+1C44","U+1C45","U+1C46","U+1C47","U+1C48","U+1C49",
   "U+1C50","U+1C51","U+1C52","U+1C53","U+1C54","U+1C55","U+1C56","U+1C57","U+1C58","U+1C59",
   "U+A620","U+A621","U+A622","U+A623","U+A624","U+A625","U+A626","U+A627","U+A628","U+A629",
   "U+A8D0","U+A8D1","U+A8D2","U+A8D3","U+A8D4","U+A8D5","U+A8D6","U+A8D7","U+A8D8","U+A8D9",
   "U+A900","U+A901","U+A902","U+A903","U+A904","U+A905","U+A906","U+A907","U+A908","U+A909",
   "U+A9D0","U+A9D1","U+A9D2","U+A9D3","U+A9D4","U+A9D5","U+A9D6","U+A9D7","U+A9D8","U+A9D9",
   "U+A9F0","U+A9F1","U+A9F2","U+A9F3","U+A9F4","U+A9F5","U+A9F6","U+A9F7","U+A9F8","U+A9F9",
   "U+AA50","U+AA51","U+AA52","U+AA53","U+AA54","U+AA55","U+AA56","U+AA57","U+AA58","U+AA59",
   "U+ABF0","U+ABF1","U+ABF2","U+ABF3","U+ABF4","U+ABF5","U+ABF6","U+ABF7","U+ABF8","U+ABF9",
   "U+FF10","U+FF11","U+FF12","U+FF13","U+FF14","U+FF15","U+FF16","U+FF17","U+FF18","U+FF19",
   "U+104A0","U+104A1","U+104A2","U+104A3","U+104A4","U+104A5","U+104A6","U+104A7","U+104A8","U+104A9",
   "U+10D30","U+10D31","U+10D32","U+10D33","U+10D34","U+10D35","U+10D36","U+10D37","U+10D38","U+10D39",
   "U+11066","U+11067","U+11068","U+11069","U+1106A","U+1106B","U+1106C","U+1106D","U+1106E","U+1106F",
   "U+110F0","U+110F1","U+110F2","U+110F3","U+110F4","U+110F5","U+110F6","U+110F7","U+110F8","U+110F9",
   "U+11136","U+11137","U+11138","U+11139","U+1113A","U+1113B","U+1113C","U+1113D","U+1113E","U+1113F",
   "U+111D0","U+111D1","U+111D2","U+111D3","U+111D4","U+111D5","U+111D6","U+111D7","U+111D8","U+111D9",
   "U+112F0","U+112F1","U+112F2","U+112F3","U+112F4","U+112F5","U+112F6","U+112F7","U+112F8","U+112F9",
   "U+11450","U+11451","U+11452","U+11453","U+11454","U+11455","U+11456","U+11457","U+11458","U+11459",
   "U+114D0","U+114D1","U+114D2","U+114D3","U+114D4","U+114D5","U+114D6","U+114D7","U+114D8","U+114D9",
   "U+11650","U+11651","U+11652","U+11653","U+11654","U+11655","U+11656","U+11657","U+11658","U+11659",
   "U+116C0","U+116C1","U+116C2","U+116C3","U+116C4","U+116C5","U+116C6","U+116C7","U+116C8","U+116C9",
   "U+11730","U+11731","U+11732","U+11733","U+11734","U+11735","U+11736","U+11737","U+11738","U+11739",
   "U+118E0","U+118E1","U+118E2","U+118E3","U+118E4","U+118E5","U+118E6","U+118E7","U+118E8","U+118E9",
   "U+11950","U+11951","U+11952","U+11953","U+11954","U+11955","U+11956","U+11957","U+11958","U+11959",
   "U+11C50","U+11C51","U+11C52","U+11C53","U+11C54","U+11C55","U+11C56","U+11C57","U+11C58","U+11C59",
   "U+11D50","U+11D51","U+11D52","U+11D53","U+11D54","U+11D55","U+11D56","U+11D57","U+11D58","U+11D59",
   "U+11DA0","U+11DA1","U+11DA2","U+11DA3","U+11DA4","U+11DA5","U+11DA6","U+11DA7","U+11DA8","U+11DA9",
   "U+16A60","U+16A61","U+16A62","U+16A63","U+16A64","U+16A65","U+16A66","U+16A67","U+16A68","U+16A69",
   "U+16AC0","U+16AC1","U+16AC2","U+16AC3","U+16AC4","U+16AC5","U+16AC6","U+16AC7","U+16AC8","U+16AC9",
   "U+16B50","U+16B51","U+16B52","U+16B53","U+16B54","U+16B55","U+16B56","U+16B57","U+16B58","U+16B59",
   "U+1D7CE","U+1D7CF","U+1D7D0","U+1D7D1","U+1D7D2","U+1D7D3","U+1D7D4","U+1D7D5","U+1D7D6","U+1D7D7",
   "U+1D7D8","U+1D7D9","U+1D7DA","U+1D7DB","U+1D7DC","U+1D7DD","U+1D7DE","U+1D7DF","U+1D7E0","U+1D7E1",
   "U+1D7E2","U+1D7E3","U+1D7E4","U+1D7E5","U+1D7E6","U+1D7E7","U+1D7E8","U+1D7E9","U+1D7EA","U+1D7EB",
   "U+1D7EC","U+1D7ED","U+1D7EE","U+1D7EF","U+1D7F0","U+1D7F1","U+1D7F2","U+1D7F3","U+1D7F4","U+1D7F5",
   "U+1D7F6","U+1D7F7","U+1D7F8","U+1D7F9","U+1D7FA","U+1D7FB","U+1D7FC","U+1D7FD","U+1D7FE","U+1D7FF",
   "U+1E140","U+1E141","U+1E142","U+1E143","U+1E144","U+1E145","U+1E146","U+1E147","U+1E148","U+1E149",
   "U+1E2F0","U+1E2F1","U+1E2F2","U+1E2F3","U+1E2F4","U+1E2F5","U+1E2F6","U+1E2F7","U+1E2F8","U+1E2F9",
   "U+1E950","U+1E951","U+1E952","U+1E953","U+1E954","U+1E955","U+1E956","U+1E957","U+1E958","U+1E959",
   "U+1FBF0","U+1FBF1","U+1FBF2","U+1FBF3","U+1FBF4","U+1FBF5","U+1FBF6","U+1FBF7","U+1FBF8","U+1FBF9"}

\* the characters of the strings typed into the login and register forms
Chars(s) ==
  CASE s = "" -> <<>>
    [] s = "admin@community.com" ->
         <<"a","d","m","i","n","@","c","o","m","m","u","n","i","t","y",".","c","o","m">>
    [] s = "alice@example.com" ->
         <<"a","l","i","c","e","@","e","x","a","m","p","l","e",".","c","o","m">>
    [] s = "bob@example.com" ->
         <<"b","o","b","@","e","x","a","m","p","l","e",".","c","o","m">>
    [] s = "Bob@Example.COM" ->
         <<"B","o","b","@","E","x","a","m","p","l","e",".","C","O","M">>
    [] s = "alice@example.com\n" ->
         <<"a","l","i","c","e","@","e","x","a","m","p","l","e",".","c","o","m","\n">>
    [] s = "alice.example.com" ->
         <<"a","l","i","c","e",".","e","x","a","m","p","l","e",".","c","o","m">>
    [] s = "alice@example.c" ->
         <<"a","l","i","c","e","@","e","x","a","m","p","l","e",".","c">>
    [] s = "+15551234567" -> <<"+","1","5","5","5","1","2","3","4","5","6","7">>
    [] s = "+15551234567\n" ->
         <<"+","1","5","5","5","1","2","3","4","5","6","7","\n">>
    [] s = "U+0663U+0663U+0663U+0663U+0663U+0663U+0663U+0663U+0663" ->
         <<"U+0663","U+0663","U+0663","U+0663","U+0663","U+0663","U+0663","U+0663","U+0663">>
    [] s = "555-1234" -> <<"5","5","5","-","1","2","3","4">>
    [] s = "12345678" -> <<"1","2","3","4","5","6","7","8">>
    [] s = "admin123" -> <<"a","d","m","i","n","1","2","3">>
    [] s = "secret1" -> <<"s","e","c","r","e","t","1">>
    [] s = "short" -> <<"s","h","o","r","t">>

AllIn(seq, lo, hi, class) == \A k \in lo..hi : seq[k] \in class

\* the $ of re.match: it matches at the end of the string, and also right
\* before a newline that is the string's last character
MatchEnds(c) ==
  IF Len(c) > 0 /\ c[Len(c)] = "\n" THEN {Len(c), Len(c) - 1} ELSE {Len(c)}

\* r'^[a-zA-Z0-9._%+-]+@[a-zA-Z0-9.-]+\.[a-zA-Z]{2,}$'
validate_email(email) ==
  LET c == Chars(email)
      local == Letters \cup Digits \cup {".", "_", "%", "+", "-"}
      domain == Letters \cup Digits \cup {".", "-"}
  IN \E n \in MatchEnds(c) : \E i \in 2..n : \E j \in (i + 2)..n :
        /\ c[i] = "@"
        /\ c[j] = "."
        /\ AllIn(c, 1, i - 1, local)
        /\ AllIn(c, i + 1, j - 1, domain)
        /\ n - j >= 2
        /\ AllIn(c, j + 1, n, Letters)

\* r'^\+?1?\d{9,15}$'
validate_phone(phone) ==
  LET c == Chars(phone)
      p == IF Len(c) > 0 /\ c[1] = "+" THEN 1 ELSE 0
  IN \E n \in MatchEnds(c) : \E one \in {0, 1} :
        /\ one = 1 => (n > p /\ c[p + 1] = "1")
        /\ n - p - one >= 9
        /\ n - p - one <= 15
        /\ AllIn(c, p + one + 1, n, DecimalDigits)

(************************* the database, as a record ***********************)
Rows == users_seq + reports_seq + Len(admin_logs)
\* the model's bounds: room for one more row, and for one more notification (a
\* call of update_report_status may add a notification and no row of
\* admin_logs: add_admin_log fails silently once the admin's own row is deleted)
RoomForRow(max) == Rows < max
RoomForNotification(max) == Len(notifications) < max

DB == [users |-> users, users_seq |-> users_seq,
       reports |-> reports, reports_seq |-> reports_seq,
       notifications |-> notifications, admin_logs |-> admin_logs]

SetDB(d) ==
  /\ users' = d.users
  /\ users_seq' = d.users_seq
  /\ reports' = d.reports
  /\ reports_seq' = d.reports_seq
  /\ notifications' = d.notifications
  /\ admin_logs' = d.admin_logs

\* f with the row at key k set
Put(f, k, row) == [i \in DOMAIN f \cup {k} |-> IF i = k THEN row ELSE f[i]]
\* f without the row at key k
Drop(f, k) == [i \in DOMAIN f \ {k} |-> f[i]]

\* a value of a column that REFERENCES users(id): NULL or the id of a row
UserRefOk(d, id) == id = None \/ id \in DOMAIN d.users
ReportRefOk(d, id) == id = None \/ id \in DOMAIN d.reports

\* a faulty InsertUser, which C27 must tell from the real one: the table has
\* no UNIQUE constraint on email
InsertUser_EmailNotUnique(d, row) ==
  LET id == d.users_seq + 1
      taken == \E u \in DOMAIN d.users : d.users[u].username = row.username
  IN IF taken
     THEN [ok |-> FALSE, db |-> [d EXCEPT !.users_seq = id]]
     ELSE [ok |-> TRUE,
           db |-> [d EXCEPT !.users_seq = id, !.users = Put(@, id, row)]]

\* INSERT INTO users: the SERIAL value is taken before the UNIQUE checks, and
\* stays taken when the statement fails
InsertUser(d, row) ==
  LET id == d.users_seq + 1
      taken == \E u \in DOMAIN d.users :
                  \/ d.users[u].username = row.username
                  \/ d.users[u].email = row.email
  IN IF taken
     THEN [ok |-> FALSE, db |-> [d EXCEPT !.users_seq = id]]
     ELSE [ok |-> TRUE,
           db |-> [d EXCEPT !.users_seq = id, !.users = Put(@, id, row)]]

\* INSERT INTO reports: user_id REFERENCES users(id)
InsertReport(d, row) ==
  LET id == d.reports_seq + 1
  IN IF ~UserRefOk(d, row.user_id)
     THEN [ok |-> FALSE, db |-> [d EXCEPT !.reports_seq = id]]
     ELSE [ok |-> TRUE,
           db |-> [d EXCEPT !.reports_seq = id, !.reports = Put(@, id, row)]]

\* INSERT INTO notifications: user_id REFERENCES users(id), report_id
\* REFERENCES reports(id)
InsertNotification(d, row) ==
  IF UserRefOk(d, row.user_id) /\ ReportRefOk(d, row.report_id)
  THEN [ok |-> TRUE, db |-> [d EXCEPT !.notifications = Append(@, row)]]
  ELSE [ok |-> FALSE, db |-> d]

\* INSERT INTO admin_logs: admin_id REFERENCES users(id)
InsertAdminLog(d, row) ==
  IF UserRefOk(d, row.admin_id)
  THEN [ok |-> TRUE, db |-> [d EXCEPT !.admin_logs = Append(@, row)]]
  ELSE [ok |-> FALSE, db |-> d]

\* a faulty UserReferenced, which C12 must tell from the real one:
\* reports.user_id is no foreign key
UserReferenced_NotByReports(d, id) ==
  \/ \E k \in 1..Len(d.notifications) : d.notifications[k].user_id = id
  \/ \E k \in 1..Len(d.admin_logs) : d.admin_logs[k].admin_id = id

\* rows that refer to user id: they make DELETE FROM users fail
UserReferenced(d, id) ==
  \/ \E r \in DOMAIN d.reports : d.reports[r].user_id = id
  \/ \E k \in 1..Len(d.notifications) : d.notifications[k].user_id = id
  \/ \E k \in 1..Len(d.admin_logs) : d.admin_logs[k].admin_id = id

\* a faulty ReportReferenced, which C28 must tell from the real one:
\* notifications.report_id is declared without REFERENCES
ReportReferenced_NoForeignKey(d, id) == FALSE

\* rows that refer to report id: they make DELETE FROM reports fail
ReportReferenced(d, id) ==
  \E k \in 1..Len(d.notifications) : d.notifications[k].report_id = id

\* a faulty DeleteUserRow, which C22 must tell from the real one:
\* admin_logs.admin_id is declared ON DELETE CASCADE
DeleteUserRow_CascadesLogs(d, id) ==
  IF id \notin DOMAIN d.users THEN [ok |-> TRUE, db |-> d]
  ELSE IF \/ \E r \in DOMAIN d.reports : d.reports[r].user_id = id
          \/ \E k \in 1..Len(d.notifications) : d.notifications[k].user_id = id
       THEN [ok |-> FALSE, db |-> d]
  ELSE [ok |-> TRUE,
        db |-> [d EXCEPT !.users = Drop(@, id),
                         !.admin_logs = SelectSeq(@, LAMBDA e : e.admin_id /= id)]]

\* DELETE FROM users WHERE id=%s
DeleteUserRow(d, id) ==
  IF id \notin DOMAIN d.users THEN [ok |-> TRUE, db |-> d]
  ELSE IF UserReferenced(d, id) THEN [ok |-> FALSE, db |-> d]
  ELSE [ok |-> TRUE, db |-> [d EXCEPT !.users = Drop(@, id)]]

\* DELETE FROM reports WHERE id=%s
DeleteReportRow(d, id) ==
  IF id \notin DOMAIN d.reports THEN [ok |-> TRUE, db |-> d]
  ELSE IF ReportReferenced(d, id) THEN [ok |-> FALSE, db |-> d]
  ELSE [ok |-> TRUE, db |-> [d EXCEPT !.reports = Drop(@, id)]]

\* UPDATE reports SET status=%s WHERE id=%s
UpdateReportStatusRow(d, id, new_status) ==
  IF id \in DOMAIN d.reports
  THEN [d EXCEPT !.reports[id].status = new_status]
  ELSE d

\* UPDATE users SET role=%s WHERE id=%s
UpdateUserRoleRow(d, id, new_role) ==
  IF id \in DOMAIN d.users
  THEN [d EXCEPT !.users[id].role = new_role]
  ELSE d

(*************************** init_database *********************************)
AdminRow == [username |-> "admin", password |-> "admin123",
             email |-> "admin@community.com", phone |-> "", role |-> "admin"]

EmptyDB == [users |-> <<>>, users_seq |-> 0, reports |-> <<>>, reports_seq |-> 0,
            notifications |-> <<>>, admin_logs |-> <<>>]

\* the tables exist after the first run; the admin is inserted when no row
\* has its email
init_database(d) ==
  IF \E u \in DOMAIN d.users : d.users[u].email = "admin@community.com"
  THEN d
  ELSE InsertUser(d, AdminRow).db

NoUser == [id |-> None, username |-> "", role |-> ""]

(**************************** helper services ******************************)
\* add_notification: the failed INSERT is logged and swallowed
add_notification(d, user_id, report_id, message) ==
  InsertNotification(d, [user_id |-> user_id, report_id |-> report_id,
                         message |-> message, type |-> "status_update",
                         is_read |-> FALSE]).db

\* add_admin_log: admin_id is the session's current_user["id"]; the failed
\* INSERT is logged and swallowed
add_admin_log(d, cu, action, target_type, target_id, details) ==
  InsertAdminLog(d, [admin_id |-> cu.id, action |-> action,
                     target_type |-> target_type, target_id |-> target_id,
                     details |-> details]).db

Count(d, status) == Cardinality({r \in DOMAIN d.reports : d.reports[r].status = status})

\* a faulty get_report_stats, which C13 must tell from the real one: pending
\* counts every report that is not resolved
get_report_stats_PendingIsOpen(d, cu) ==
  [total |-> Cardinality(DOMAIN d.reports),
   pending |-> Cardinality(DOMAIN d.reports) - Count(d, "Resolved"),
   in_progress |-> Count(d, "In Progress"),
   resolved |-> Count(d, "Resolved"),
   my_reports |-> IF cu.id /= None
                  THEN Cardinality({r \in DOMAIN d.reports : d.reports[r].user_id = cu.id})
                  ELSE 0]

\* get_report_stats: the stats of a call whose four count queries read the
\* same database d
get_report_stats(d, cu) ==
  [total |-> Cardinality(DOMAIN d.reports),
   pending |-> Count(d, "Pending"),
   in_progress |-> Count(d, "In Progress"),
   resolved |-> Count(d, "Resolved"),
   my_reports |-> IF cu.id /= None
                  THEN Cardinality({r \in DOMAIN d.reports : d.reports[r].user_id = cu.id})
                  ELSE 0]

\* load_community_reports: FROM reports r JOIN users u ON r.user_id = u.id
load_community_reports(d) ==
  {r \in DOMAIN d.reports : d.reports[r].user_id \in DOMAIN d.users}

\* ORDER BY id DESC: the ids of S, greatest first
RECURSIVE OrderByIdDesc(_)
OrderByIdDesc(S) ==
  IF S = {} THEN <<>>
  ELSE LET m == CHOOSE x \in S : \A y \in S : y <= x
       IN <<m>> \o OrderByIdDesc(S \ {m})

\* data = cursor.fetchall() of load_community_reports
community_reports_data(d) == OrderByIdDesc(load_community_reports(d))

\* load_users: SELECT ... FROM users
load_users(d) == DOMAIN d.users

\* a faulty load_my_reports, which C16 must tell from the real one: the
\* SELECT has no WHERE
load_my_reports_NoWhere(d, cu) ==
  IF cu.id = None THEN {}
  ELSE DOMAIN d.reports

\* load_my_reports: FROM reports WHERE user_id=%s
load_my_reports(d, cu) ==
  IF cu.id = None THEN {}
  ELSE {r \in DOMAIN d.reports : d.reports[r].user_id = cu.id}

\* data = cursor.fetchall() of load_my_reports
my_reports_data(d, cu) == OrderByIdDesc(load_my_reports(d, cu))

(******************************* Init ***************************************)
\* the state after init_database() has run on an empty database and every
\* session's main(page) has shown login_screen()
Init ==
  /\ users = init_database(EmptyDB).users
  /\ users_seq = init_database(EmptyDB).users_seq
  /\ reports = <<>>
  /\ reports_seq = 0
  /\ notifications = <<>>
  /\ admin_logs = <<>>
  /\ current_user = [s \in Sessions |-> NoUser]
  /\ screen = [s \in Sessions |-> "login"]
  /\ listed = [s \in Sessions |-> {}]
  /\ snack = [s \in Sessions |-> <<>>]
  /\ pc = [s \in Sessions |-> "idle"]
  /\ frame = [s \in Sessions |-> <<>>]
  /\ picking = [s \in Sessions |-> {}]

(************************* what a session shows ****************************)
\* page.clean() and the new screen's controls; lst is what its list offers
Show(s, scr, lst) ==
  /\ screen' = [screen EXCEPT ![s] = scr]
  /\ listed' = [listed EXCEPT ![s] = lst]

\* snack[s] is the snack bar the session's latest callback opened, <<>> when
\* that callback opened none
show_snack(s, message) == snack' = [snack EXCEPT ![s] = message]
no_snack(s) == snack' = [snack EXCEPT ![s] = <<>>]

Idle(s) == pc[s] = "idle"

(***************************** login_screen ********************************)
LoginEmails == {"", "alice.example.com", "admin@community.com",
                "alice@example.com", "alice@example.com\n", "bob@example.com",
                "Bob@Example.COM"}
LoginPasswords == {"", "admin123", "secret1"}

\* SELECT id, username, role, email FROM users WHERE email=%s AND password=%s
SelectLogin(d, email, password) ==
  {u \in DOMAIN d.users : d.users[u].email = email /\ d.users[u].password = password}


\* the stats of get_report_stats before its first query
NoStats == [total |-> 0, pending |-> 0, in_progress |-> 0, resolved |-> 0,
            my_reports |-> 0]

\* the locals of admin_dashboard_screen or user_dashboard_screen when it
\* begins, after page.clean(): next is the statement that follows the five
\* queries of get_report_stats
Dashboard(role) ==
  [role |-> role, list |-> {}, stats |-> NoStats,
   next |-> IF role = "admin" THEN "dash_add" ELSE "dash_my_reports"]

\* do_login is taken one database statement at a time: pc[s] is the statement
\* session s runs next and frame[s] holds the locals of its call.  What a
\* statement is followed by before the next statement of the database
\* (show_snack, page.clean()) is taken with it
\* do_login up to the SELECT and page.clean() of the dashboard it opens
login_at_select(s, email, password) ==
  /\ Idle(s)
  /\ screen[s] = "login"
  /\ UNCHANGED dbvars
  /\ IF email = "" \/ password = ""
     THEN /\ show_snack(s, <<"Please enter both email and password!">>)
          /\ UNCHANGED <<current_user, screen, listed, pc, frame>>
     ELSE IF ~validate_email(email)
     THEN /\ show_snack(s, <<"Please enter a valid email address!">>)
          /\ UNCHANGED <<current_user, screen, listed, pc, frame>>
     ELSE IF SelectLogin(DB, email, password) = {}
     THEN /\ show_snack(s, <<"Invalid email or password! Please try again.">>)
          /\ UNCHANGED <<current_user, screen, listed, pc, frame>>
     ELSE LET id == CHOOSE u \in SelectLogin(DB, email, password) : TRUE
              user == users[id]
          IN /\ current_user' = [current_user EXCEPT
                                   ![s] = [id |-> id, username |-> user.username,
                                           role |-> user.role]]
             /\ show_snack(s, <<"Welcome back,", user.username>>)
             /\ Show(s, "blank", {})
             /\ pc' = [pc EXCEPT ![s] = IF user.role = "admin" THEN "dash_list"
                                        ELSE "stats_total"]
             /\ frame' = [frame EXCEPT ![s] = Dashboard(user.role)]
  /\ UNCHANGED picking

\* admin_dashboard_screen: create_community_reports_tab() loads the list
dash_at_list(s) ==
  /\ pc[s] = "dash_list"
  /\ frame' = [frame EXCEPT ![s].list = load_community_reports(DB)]
  /\ pc' = [pc EXCEPT ![s] = "stats_total"]
  /\ UNCHANGED <<dbvars, current_user, screen, listed, snack>>
  /\ UNCHANGED picking

\* get_report_stats: SELECT COUNT(*) FROM reports
stats_at_total(s) ==
  /\ pc[s] = "stats_total"
  /\ frame' = [frame EXCEPT ![s].stats.total = Cardinality(DOMAIN reports)]
  /\ pc' = [pc EXCEPT ![s] = "stats_pending"]
  /\ UNCHANGED <<dbvars, current_user, screen, listed, snack>>
  /\ UNCHANGED picking

\* SELECT COUNT(*) FROM reports WHERE status='Pending'
stats_at_pending(s) ==
  /\ pc[s] = "stats_pending"
  /\ frame' = [frame EXCEPT ![s].stats.pending = Count(DB, "Pending")]
  /\ pc' = [pc EXCEPT ![s] = "stats_in_progress"]
  /\ UNCHANGED <<dbvars, current_user, screen, listed, snack>>
  /\ UNCHANGED picking

\* SELECT COUNT(*) FROM reports WHERE status='In Progress'
stats_at_in_progress(s) ==
  /\ pc[s] = "stats_in_progress"
  /\ frame' = [frame EXCEPT ![s].stats.in_progress = Count(DB, "In Progress")]
  /\ pc' = [pc EXCEPT ![s] = "stats_resolved"]
  /\ UNCHANGED <<dbvars, current_user, screen, listed, snack>>
  /\ UNCHANGED picking

\* SELECT COUNT(*) FROM reports WHERE status='Resolved'
stats_at_resolved(s) ==
  /\ pc[s] = "stats_resolved"
  /\ frame' = [frame EXCEPT ![s].stats.resolved = Count(DB, "Resolved")]
  /\ pc' = [pc EXCEPT ![s] = "stats_mine"]
  /\ UNCHANGED <<dbvars, current_user, screen, listed, snack>>
  /\ UNCHANGED picking

\* if current_user["id"]: SELECT COUNT(*) FROM reports WHERE user_id=%s
stats_at_mine(s) ==
  /\ pc[s] = "stats_mine"
  /\ frame' = [frame EXCEPT ![s].stats.my_reports =
                 IF current_user[s].id /= None
                 THEN Cardinality({r \in DOMAIN reports :
                                     reports[r].user_id = current_user[s].id})
                 ELSE 0]
  /\ pc' = [pc EXCEPT ![s] = frame[s].next]
  /\ UNCHANGED <<dbvars, current_user, screen, listed, snack>>
  /\ UNCHANGED picking

\* user_dashboard_screen: load_my_reports() returns at once when current_user
\* has no id, and else runs SELECT ... FROM reports WHERE user_id=%s
dash_at_my_reports(s) ==
  /\ pc[s] = "dash_my_reports"
  /\ frame' = [frame EXCEPT ![s].list =
                 IF current_user[s].id = None THEN {}
                 ELSE load_my_reports(DB, current_user[s])]
  /\ pc' = [pc EXCEPT ![s] = "dash_add"]
  /\ UNCHANGED <<dbvars, current_user, screen, listed, snack>>
  /\ UNCHANGED picking

\* refresh_stats of the admin dashboard, after create_stats_cards() has run
\* the five queries: stats_cards_container.content = ...; page.update()
refresh_at_update(s) ==
  /\ pc[s] = "refresh_update"
  /\ pc' = [pc EXCEPT ![s] = "idle"]
  /\ frame' = [frame EXCEPT ![s] = <<>>]
  /\ UNCHANGED <<dbvars, current_user, screen, listed, snack>>
  /\ UNCHANGED picking

\* a faulty dash_at_add, which C25 must tell from the real one: every login
\* ends at the admin dashboard
dash_at_add_DashboardForAll(s) ==
  /\ pc[s] = "dash_add"
  /\ Show(s, "admin_reports", load_community_reports(DB))
  /\ pc' = [pc EXCEPT ![s] = "idle"]
  /\ frame' = [frame EXCEPT ![s] = <<>>]
  /\ UNCHANGED <<dbvars, current_user, snack>>
  /\ UNCHANGED picking

\* page.add(...) of the dashboard, with the stats cards and the list
dash_at_add(s) ==
  /\ pc[s] = "dash_add"
  /\ IF frame[s].role = "admin"
     THEN Show(s, "admin_reports", frame[s].list)
     ELSE Show(s, "user", frame[s].list)
  /\ pc' = [pc EXCEPT ![s] = "idle"]
  /\ frame' = [frame EXCEPT ![s] = <<>>]
  /\ UNCHANGED <<dbvars, current_user, snack>>
  /\ UNCHANGED picking

\* the statements of a dashboard that is being built, by do_login,
\* submit_report or go_back, and those of get_report_stats in refresh_stats
login_goes_on(s) ==
  \/ dash_at_list(s)
  \/ stats_at_total(s)
  \/ stats_at_pending(s)
  \/ stats_at_in_progress(s)
  \/ stats_at_resolved(s)
  \/ stats_at_mine(s)
  \/ dash_at_my_reports(s)
  \/ dash_at_add(s)

go_register(s) ==
  /\ Idle(s)
  /\ screen[s] = "login"
  /\ Show(s, "register", {})
  /\ no_snack(s)
  /\ UNCHANGED <<dbvars, current_user, pc, frame>>
  /\ UNCHANGED picking

(**************************** register_screen ******************************)
RegisterDraft(username, email, phone, password, confirm_password) ==
  [username |-> username, email |-> email, phone |-> phone,
   password |-> password, confirm_password |-> confirm_password]

\* what is typed into the register form: drafts that pass the checks (two
\* people, a draft with alice's name and bob's address, one with the seeded
\* admin's name and address), one draft for each check that rejects, and two
\* that the password check rejects after a phone number in digits outside
\* ASCII, or an address and a phone number that end in a newline, have passed
RegisterDrafts ==
  {RegisterDraft("alice", "alice@example.com", "", "secret1", "secret1"),
   RegisterDraft("bob", "bob@example.com", "+15551234567", "secret1", "secret1"),
   RegisterDraft("alice", "bob@example.com", "", "secret1", "secret1"),
   RegisterDraft("admin", "admin@community.com", "", "secret1", "secret1"),
   RegisterDraft("", "alice@example.com", "", "secret1", "secret1"),
   RegisterDraft("alice", "alice@example.c", "", "secret1", "secret1"),
   RegisterDraft("alice", "alice@example.com", "555-1234", "secret1", "secret1"),
   RegisterDraft("alice", "alice@example.com", "12345678", "secret1", "secret1"),
   RegisterDraft("alice", "alice@example.com",
                 "U+0663U+0663U+0663U+0663U+0663U+0663U+0663U+0663U+0663",
                 "secret1", "admin123"),
   RegisterDraft("alice", "alice@example.com\n", "+15551234567\n",
                 "secret1", "admin123"),
   RegisterDraft("alice", "alice@example.com", "", "secret1", "admin123"),
   RegisterDraft("alice", "alice@example.com", "", "short", "short")}

\* the checks of do_register before it opens a connection: the snack of the
\* first one that fails, <<>> when none does
RegisterRejected(f) ==
  IF f.username = "" \/ f.email = "" \/ f.password = "" \/ f.confirm_password = ""
    THEN <<"Please fill in all required fields!">>
  ELSE IF ~validate_email(f.email)
    THEN <<"Please enter a valid email address!">>
  ELSE IF f.phone /= "" /\ ~validate_phone(f.phone)
    THEN <<"Please enter a valid phone number!">>
  ELSE IF f.password /= f.confirm_password
    THEN <<"Passwords do not match!">>
  ELSE IF Len(Chars(f.password)) < 6
    THEN <<"Password must be at least 6 characters long!">>
  ELSE <<>>

\* a faulty EmailExists, which C14 must tell from the real one: the SELECT
\* looks the address up in the username column
EmailExists_InUsername(d, email) ==
  \E u \in DOMAIN d.users : d.users[u].username = email

\* SELECT id FROM users WHERE email=%s
EmailExists(d, email) == \E u \in DOMAIN d.users : d.users[u].email = email

UserRow(f) == [username |-> f.username, password |-> f.password,
               email |-> f.email, phone |-> f.phone, role |-> "user"]

\* do_register up to SELECT id FROM users WHERE email=%s
reg_at_check(s, f) ==
  /\ Idle(s)
  /\ screen[s] = "register"
  /\ UNCHANGED <<dbvars, current_user, screen, listed>>
  /\ IF RegisterRejected(f) /= <<>>
     THEN /\ show_snack(s, RegisterRejected(f))
          /\ UNCHANGED <<pc, frame>>
     ELSE IF EmailExists(DB, f.email)
     THEN /\ show_snack(s, <<"Email already exists!">>)
          /\ UNCHANGED <<pc, frame>>
     ELSE /\ no_snack(s)
          /\ pc' = [pc EXCEPT ![s] = "reg_insert"]
          /\ frame' = [frame EXCEPT ![s] = f]
  /\ UNCHANGED picking

\* INSERT INTO users ...; conn.commit(), and what follows it
reg_at_insert(s) ==
  /\ pc[s] = "reg_insert"
  /\ LET ins == InsertUser(DB, UserRow(frame[s]))
     IN /\ users' = ins.db.users
        /\ users_seq' = ins.db.users_seq
        /\ IF ins.ok
           THEN /\ show_snack(s, <<"Account created successfully!">>)
                /\ Show(s, "login", {})
           ELSE /\ show_snack(s, <<"Registration failed. Please try again.">>)
                /\ UNCHANGED <<screen, listed>>
  /\ pc' = [pc EXCEPT ![s] = "idle"]
  /\ frame' = [frame EXCEPT ![s] = <<>>]
  /\ UNCHANGED <<reports, reports_seq, notifications, admin_logs, current_user>>
  /\ UNCHANGED picking

register_back(s) ==
  /\ Idle(s)
  /\ screen[s] = "register"
  /\ Show(s, "login", {})
  /\ no_snack(s)
  /\ UNCHANGED <<dbvars, current_user, pc, frame>>
  /\ UNCHANGED picking

(************************** admin_dashboard_screen *************************)
\* on_tab_change / update_admin_content: the tab's content is built anew
TabScreen(index) ==
  CASE index = 0 -> "admin_reports"
    [] index = 1 -> "admin_users"
    [] index = 2 -> "admin_logs"

TabList(d, index) ==
  CASE index = 0 -> load_community_reports(d)
    [] index = 1 -> load_users(d)
    [] index = 2 -> {}

AdminScreens == {"admin_reports", "admin_users", "admin_logs"}

on_tab_change(s, index) ==
  /\ Idle(s)
  /\ screen[s] \in AdminScreens
  /\ Show(s, TabScreen(index), TabList(DB, index))
  /\ no_snack(s)
  /\ UNCHANGED <<dbvars, current_user, pc, frame>>
  /\ UNCHANGED picking

\* the Refresh buttons of the two lists
refresh_list(s) ==
  /\ Idle(s)
  /\ screen[s] \in {"admin_reports", "admin_users"}
  /\ Show(s, screen[s],
          IF screen[s] = "admin_reports" THEN load_community_reports(DB)
          ELSE load_users(DB))
  /\ no_snack(s)
  /\ UNCHANGED <<dbvars, current_user, pc, frame>>
  /\ UNCHANGED picking

\* the header's logout button: [logout(), show_snack("Logged out successfully!")]
admin_logout(s) ==
  /\ Idle(s)
  /\ screen[s] \in AdminScreens
  /\ current_user' = [current_user EXCEPT ![s] = NoUser]
  /\ Show(s, "login", {})
  /\ show_snack(s, <<"Logged out successfully!">>)
  /\ UNCHANGED <<dbvars, pc, frame>>
  /\ UNCHANGED picking

\* the locals of refresh_stats when it begins
Refresh == [stats |-> NoStats, next |-> "refresh_update"]

NotificationMessage(new_status) ==
  <<"Your report status has been updated to", new_status>>

\* update_report_status, statement by statement
\* a faulty urs_update, which C6 must tell from the real one: a report that
\* is "Resolved" stays so
urs_update_ResolvedIsFinal(d, report_id, new_status) ==
  IF report_id \in DOMAIN d.reports /\ d.reports[report_id].status = "Resolved"
  THEN d
  ELSE UpdateReportStatusRow(d, report_id, new_status)

\* UPDATE reports SET status=%s WHERE id=%s; conn.commit()
urs_update(d, report_id, new_status) == UpdateReportStatusRow(d, report_id, new_status)

\* SELECT user_id FROM reports WHERE id=%s; fetchone(): << >> is None
urs_select(d, report_id) ==
  IF report_id \in DOMAIN d.reports THEN <<d.reports[report_id].user_id>> ELSE <<>>

\* if result: add_notification(user_id, report_id, ...)
urs_notify(d, result, report_id, new_status) ==
  IF result /= <<>>
  THEN add_notification(d, result[1], report_id, NotificationMessage(new_status))
  ELSE d

\* add_admin_log("UPDATE_STATUS", "report", report_id, ...)
urs_log(d, cu, report_id, new_status) ==
  add_admin_log(d, cu, "UPDATE_STATUS", "report", report_id,
                <<"Status changed to", new_status>>)

\* the database after the whole of update_report_status, when no statement of
\* another session comes between its own
update_report_status_db(d, cu, report_id, new_status) ==
  LET d1 == urs_update(d, report_id, new_status)
      d2 == urs_notify(d1, urs_select(d1, report_id), report_id, new_status)
  IN urs_log(d2, cu, report_id, new_status)

\* every statement of the callback is committed on its own (conn.commit()
\* after the UPDATE, add_notification and add_admin_log each on a connection
\* of their own)
urs_at_update(s, report_id, new_status) ==
  /\ Idle(s)
  /\ screen[s] = "admin_reports"
  /\ SetDB(urs_update(DB, report_id, new_status))
  /\ pc' = [pc EXCEPT ![s] = "urs_select"]
  /\ frame' = [frame EXCEPT ![s] = [report_id |-> report_id,
                                    new_status |-> new_status, result |-> <<>>]]
  /\ no_snack(s)
  /\ UNCHANGED <<current_user, screen, listed>>
  /\ UNCHANGED picking

urs_at_select(s) ==
  /\ pc[s] = "urs_select"
  /\ frame' = [frame EXCEPT ![s].result = urs_select(DB, frame[s].report_id)]
  /\ pc' = [pc EXCEPT ![s] = "urs_notify"]
  /\ UNCHANGED <<dbvars, current_user, screen, listed, snack>>
  /\ UNCHANGED picking

urs_at_notify(s) ==
  /\ pc[s] = "urs_notify"
  /\ SetDB(urs_notify(DB, frame[s].result, frame[s].report_id, frame[s].new_status))
  /\ pc' = [pc EXCEPT ![s] = "urs_log"]
  /\ UNCHANGED <<current_user, screen, listed, snack, frame>>
  /\ UNCHANGED picking

\* add_admin_log(...), and show_snack(f"Status updated to {new_status}!")
urs_at_log(s) ==
  /\ pc[s] = "urs_log"
  /\ SetDB(urs_log(DB, current_user[s], frame[s].report_id, frame[s].new_status))
  /\ show_snack(s, <<"Status updated to", frame[s].new_status>>)
  /\ pc' = [pc EXCEPT ![s] = "urs_reload"]
  /\ UNCHANGED <<current_user, screen, listed, frame>>
  /\ UNCHANGED picking

\* load_community_reports(): the SELECT and page.update(); refresh_stats()
\* follows with the queries of get_report_stats
urs_at_reload(s) ==
  /\ pc[s] = "urs_reload"
  /\ Show(s, "admin_reports", load_community_reports(DB))
  /\ pc' = [pc EXCEPT ![s] = "stats_total"]
  /\ frame' = [frame EXCEPT ![s] = Refresh]
  /\ UNCHANGED <<dbvars, current_user, snack>>
  /\ UNCHANGED picking

\* the statements of update_report_status after its first, up to
\* refresh_stats()
update_report_status_goes_on(s) ==
  \/ urs_at_select(s)
  \/ urs_at_notify(s)
  \/ urs_at_log(s)
  \/ urs_at_reload(s)

\* delete_report, statement by statement
\* SELECT problem_type, location FROM reports WHERE id=%s
dr_select(d, report_id) ==
  IF report_id \in DOMAIN d.reports
  THEN <<d.reports[report_id].problem_type, d.reports[report_id].location>>
  ELSE <<>>

\* if report: add_admin_log("DELETE", "report", report_id, ...)
dr_log(d, cu, report, report_id) ==
  IF report /= <<>>
  THEN add_admin_log(d, cu, "DELETE", "report", report_id,
                     <<"Deleted:", report[1], "-", report[2]>>)
  ELSE d

\* the outcome of the whole of delete_report, when no statement of another
\* session comes between its own: [ok, db]; ok is FALSE when the except
\* branch ran
delete_report_db(d, cu, report_id) ==
  LET report == dr_select(d, report_id)
      del == DeleteReportRow(d, report_id)
  IN IF ~del.ok THEN [ok |-> FALSE, db |-> d]
     ELSE [ok |-> TRUE, db |-> dr_log(del.db, cu, report, report_id)]

dr_at_select(s, report_id) ==
  /\ Idle(s)
  /\ screen[s] = "admin_reports"
  /\ pc' = [pc EXCEPT ![s] = "dr_delete"]
  /\ frame' = [frame EXCEPT ![s] = [report_id |-> report_id,
                                    report |-> dr_select(DB, report_id)]]
  /\ no_snack(s)
  /\ UNCHANGED <<dbvars, current_user, screen, listed>>
  /\ UNCHANGED picking

\* DELETE FROM reports WHERE id=%s; conn.commit(), or the except branch
dr_at_delete(s) ==
  /\ pc[s] = "dr_delete"
  /\ LET del == DeleteReportRow(DB, frame[s].report_id)
     IN /\ SetDB(del.db)
        /\ IF del.ok
           THEN /\ pc' = [pc EXCEPT ![s] = "dr_log"]
                /\ UNCHANGED <<snack, frame>>
           ELSE /\ show_snack(s, <<"Error deleting report">>)
                /\ pc' = [pc EXCEPT ![s] = "idle"]
                /\ frame' = [frame EXCEPT ![s] = <<>>]
  /\ UNCHANGED <<current_user, screen, listed>>
  /\ UNCHANGED picking

\* if report: add_admin_log(...), and show_snack("Report deleted successfully!")
dr_at_log(s) ==
  /\ pc[s] = "dr_log"
  /\ SetDB(dr_log(DB, current_user[s], frame[s].report, frame[s].report_id))
  /\ show_snack(s, <<"Report deleted successfully!">>)
  /\ pc' = [pc EXCEPT ![s] = "dr_reload"]
  /\ UNCHANGED <<current_user, screen, listed, frame>>
  /\ UNCHANGED picking

\* load_community_reports(): the SELECT and page.update(); refresh_stats()
\* follows with the queries of get_report_stats
dr_at_reload(s) ==
  /\ pc[s] = "dr_reload"
  /\ Show(s, "admin_reports", load_community_reports(DB))
  /\ pc' = [pc EXCEPT ![s] = "stats_total"]
  /\ frame' = [frame EXCEPT ![s] = Refresh]
  /\ UNCHANGED <<dbvars, current_user, snack>>
  /\ UNCHANGED picking

\* the statements of delete_report after its first, up to refresh_stats()
delete_report_goes_on(s) ==
  \/ dr_at_delete(s)
  \/ dr_at_log(s)
  \/ dr_at_reload(s)

\* update_user_role, statement by statement
\* a faulty uur_log, which C18 must tell from the real one: the user is
\* notified of the new role
uur_log_Notifies(d, cu, user_id, new_role) ==
  add_notification(
    add_admin_log(d, cu, "UPDATE_ROLE", "user", user_id,
                  <<"Role changed to", new_role>>),
    user_id, None, <<"Your role has been changed to", new_role>>)

\* add_admin_log("UPDATE_ROLE", "user", user_id, ...)
uur_log(d, cu, user_id, new_role) ==
  add_admin_log(d, cu, "UPDATE_ROLE", "user", user_id,
                <<"Role changed to", new_role>>)

\* the database after the whole of update_user_role, when no statement of
\* another session comes between its own
update_user_role_db(d, cu, user_id, new_role) ==
  uur_log(UpdateUserRoleRow(d, user_id, new_role), cu, user_id, new_role)

\* UPDATE users SET role=%s WHERE id=%s; conn.commit()
uur_at_update(s, user_id, new_role) ==
  /\ Idle(s)
  /\ screen[s] = "admin_users"
  /\ SetDB(UpdateUserRoleRow(DB, user_id, new_role))
  /\ pc' = [pc EXCEPT ![s] = "uur_log"]
  /\ frame' = [frame EXCEPT ![s] = [user_id |-> user_id, new_role |-> new_role]]
  /\ no_snack(s)
  /\ UNCHANGED <<current_user, screen, listed>>
  /\ UNCHANGED picking

\* add_admin_log(...), and show_snack(f"User role updated to {new_role}!")
uur_at_log(s) ==
  /\ pc[s] = "uur_log"
  /\ SetDB(uur_log(DB, current_user[s], frame[s].user_id, frame[s].new_role))
  /\ show_snack(s, <<"User role updated to", frame[s].new_role>>)
  /\ pc' = [pc EXCEPT ![s] = "uur_reload"]
  /\ UNCHANGED <<current_user, screen, listed, frame>>
  /\ UNCHANGED picking

\* load_users(): the SELECT and page.update()
uur_at_reload(s) ==
  /\ pc[s] = "uur_reload"
  /\ UNCHANGED snack
  /\ Show(s, "admin_users", load_users(DB))
  /\ pc' = [pc EXCEPT ![s] = "idle"]
  /\ frame' = [frame EXCEPT ![s] = <<>>]
  /\ UNCHANGED <<dbvars, current_user>>
  /\ UNCHANGED picking

\* the statements of update_user_role after its first
update_user_role_goes_on(s) ==
  \/ uur_at_log(s)
  \/ uur_at_reload(s)

\* delete_user, statement by statement
\* the outcome of the whole of delete_user, when no statement of another
\* session comes between its own: [ok, db]; fetchone()[0] raises when no row
\* has the id, and DELETE raises when a row of another table refers to the user
delete_user_db(d, cu, user_id) ==
  IF user_id \notin DOMAIN d.users THEN [ok |-> FALSE, db |-> d]
  ELSE LET username == d.users[user_id].username
           del == DeleteUserRow(d, user_id)
       IN IF ~del.ok THEN [ok |-> FALSE, db |-> d]
          ELSE [ok |-> TRUE,
                db |-> add_admin_log(del.db, cu, "DELETE", "user", user_id,
                                     <<"Deleted user:", username>>)]

\* SELECT username FROM users WHERE id=%s; fetchone()[0], or the except branch
du_at_select(s, user_id) ==
  /\ Idle(s)
  /\ screen[s] = "admin_users"
  /\ IF user_id \in DOMAIN users
     THEN /\ pc' = [pc EXCEPT ![s] = "du_delete"]
          /\ frame' = [frame EXCEPT ![s] = [user_id |-> user_id,
                                            username |-> users[user_id].username]]
          /\ no_snack(s)
     ELSE /\ show_snack(s, <<"Error deleting user">>)
          /\ UNCHANGED <<pc, frame>>
  /\ UNCHANGED <<dbvars, current_user, screen, listed>>
  /\ UNCHANGED picking

\* DELETE FROM users WHERE id=%s; conn.commit(), or the except branch
du_at_delete(s) ==
  /\ pc[s] = "du_delete"
  /\ LET del == DeleteUserRow(DB, frame[s].user_id)
     IN /\ SetDB(del.db)
        /\ IF del.ok
           THEN /\ pc' = [pc EXCEPT ![s] = "du_log"]
                /\ UNCHANGED <<snack, frame>>
           ELSE /\ show_snack(s, <<"Error deleting user">>)
                /\ pc' = [pc EXCEPT ![s] = "idle"]
                /\ frame' = [frame EXCEPT ![s] = <<>>]
  /\ UNCHANGED <<current_user, screen, listed>>
  /\ UNCHANGED picking

\* add_admin_log("DELETE", "user", user_id, ...), and
\* show_snack("User deleted successfully!")
du_at_log(s) ==
  /\ pc[s] = "du_log"
  /\ SetDB(add_admin_log(DB, current_user[s], "DELETE", "user", frame[s].user_id,
                         <<"Deleted user:", frame[s].username>>))
  /\ show_snack(s, <<"User deleted successfully!">>)
  /\ pc' = [pc EXCEPT ![s] = "du_reload"]
  /\ UNCHANGED <<current_user, screen, listed, frame>>
  /\ UNCHANGED picking

\* load_users(): the SELECT and page.update()
du_at_reload(s) ==
  /\ pc[s] = "du_reload"
  /\ UNCHANGED snack
  /\ Show(s, "admin_users", load_users(DB))
  /\ pc' = [pc EXCEPT ![s] = "idle"]
  /\ frame' = [frame EXCEPT ![s] = <<>>]
  /\ UNCHANGED <<dbvars, current_user>>
  /\ UNCHANGED picking

\* the statements of delete_user after its first
delete_user_goes_on(s) ==
  \/ du_at_delete(s)
  \/ du_at_log(s)
  \/ du_at_reload(s)

(*************************** user_dashboard_screen *************************)
\* user_dashboard_screen.logout
user_logout(s) ==
  /\ Idle(s)
  /\ screen[s] = "user"
  /\ current_user' = [current_user EXCEPT ![s] = NoUser]
  /\ Show(s, "login", {})
  /\ no_snack(s)
  /\ UNCHANGED <<dbvars, pc, frame>>
  /\ UNCHANGED picking

\* the Refresh button of "My Reports": load_my_reports()
refresh_my_reports(s) ==
  /\ Idle(s)
  /\ screen[s] = "user"
  /\ Show(s, "user", IF current_user[s].id = None THEN {}
                     ELSE load_my_reports(DB, current_user[s]))
  /\ no_snack(s)
  /\ UNCHANGED <<dbvars, current_user, pc, frame>>
  /\ UNCHANGED picking

\* the "Report New Issue" button
open_report_issue(s) ==
  /\ Idle(s)
  /\ screen[s] = "user"
  /\ Show(s, "report", {})
  /\ no_snack(s)
  /\ UNCHANGED <<dbvars, current_user, pc, frame>>
  /\ UNCHANGED picking

(**************************** report_issue_screen **************************)
\* the dropdowns' options
ProblemTypeOptions ==
  << <<"U+1F697", "Traffic", "-", "Traffic", "congestion", "or", "road", "blockage">>,
     <<"U+1F5D1", "Waste", "-", "Garbage", "accumulation", "or", "improper", "disposal">>,
     <<"U+1F4A7", "Water", "-", "Water", "supply", "issues", "or", "leaks">>,
     <<"U+26A1", "Power", "-", "Electricity", "outage", "or", "power", "issues">>,
     <<"U+1F6E3", "Road", "-", "Potholes", "or", "road", "damage">>,
     <<"U+1F333", "Environment", "-", "Parks,", "trees,", "or", "public", "spaces">>,
     <<"U+1F3E2", "Public", "Facility", "-", "Government", "buildings", "or", "services">>,
     <<"U+1F6A8", "Emergency", "-", "Urgent", "public", "safety", "issue">>,
     <<"U+1F4DD", "Other", "-", "Other", "community", "issues">> >>

PriorityOptions ==
  << <<"U+1F7E2", "Low", "-", "Minor", "issue,", "no", "immediate", "action", "needed">>,
     <<"U+1F7E1", "Medium", "-", "Needs", "attention", "within", "a", "few", "days">>,
     <<"U+1F534", "High", "-", "Requires", "immediate", "attention">>,
     <<"U+1F6A8", "Emergency", "-", "Critical", "issue", "needing", "urgent", "action">> >>

\* value.split(" ", 1)[-1] if " " in value else value
clean_problem_type(value) == IF Len(value) > 1 THEN Tail(value) ELSE value

\* value.split(" ", 1)[0] if " " in value else value
clean_priority(value) == IF Len(value) > 1 THEN <<Head(value)>> ELSE value

ReportDraft(name, problem_type, location, issue, date, priority) ==
  [name |-> name, problem_type |-> problem_type, location |-> location,
   issue |-> issue, date |-> date, priority |-> priority]

\* what is entered into the report form: two full drafts, and one draft for
\* each field left empty
ReportDrafts ==
  {ReportDraft("Alice", ProblemTypeOptions[5], "Main St", "pothole", "2024-01-01",
               PriorityOptions[3]),
   ReportDraft("Alice", ProblemTypeOptions[1], "Elm St", "jam", "Today",
               PriorityOptions[1]),
   ReportDraft("", ProblemTypeOptions[5], "Main St", "pothole", "2024-01-01",
               PriorityOptions[3]),
   ReportDraft("Alice", <<>>, "Main St", "pothole", "2024-01-01", PriorityOptions[3]),
   ReportDraft("Alice", ProblemTypeOptions[5], "", "pothole", "2024-01-01",
               PriorityOptions[3]),
   ReportDraft("Alice", ProblemTypeOptions[5], "Main St", "", "2024-01-01",
               PriorityOptions[3]),
   ReportDraft("Alice", ProblemTypeOptions[5], "Main St", "pothole", "",
               PriorityOptions[3]),
   ReportDraft("Alice", ProblemTypeOptions[5], "Main St", "pothole", "2024-01-01",
               <<>>)}

\* all([name.value, problem_type.value, location.value, issue.value, date.value,
\*      priority.value])
DraftComplete(f) ==
  /\ f.name /= ""
  /\ f.problem_type /= <<>>
  /\ f.location /= ""
  /\ f.issue /= ""
  /\ f.date /= ""
  /\ f.priority /= <<>>

\* a faulty ReportRow, which C5 must tell from the real one: a report of
\* high priority starts "In Progress"
ReportRow_HighInProgress(cu, f) ==
  [user_id |-> cu.id, name |-> f.name,
   problem_type |-> clean_problem_type(f.problem_type),
   location |-> f.location, issue |-> f.issue, date |-> f.date,
   status |-> IF f.priority = PriorityOptions[3] THEN "In Progress" ELSE "Pending",
   priority |-> clean_priority(f.priority)]

\* the row of INSERT INTO reports (user_id, name, problem_type, location, issue,
\* date, priority, photo_data); status takes the column's DEFAULT 'Pending'
ReportRow(cu, f) ==
  [user_id |-> cu.id, name |-> f.name,
   problem_type |-> clean_problem_type(f.problem_type),
   location |-> f.location, issue |-> f.issue, date |-> f.date,
   status |-> "Pending", priority |-> clean_priority(f.priority)]

\* submit_report up to INSERT INTO reports ...; conn.commit(), with the snack
\* and the page.clean() of user_dashboard_screen() that follow it; the
\* statements of the dashboard come after, one at a time
submit_report(s, f) ==
  /\ Idle(s)
  /\ screen[s] = "report"
  /\ UNCHANGED <<users, users_seq, notifications, admin_logs, current_user>>
  /\ IF ~DraftComplete(f)
     THEN /\ show_snack(s, <<"Please fill in all required fields!">>)
          /\ UNCHANGED <<reports, reports_seq, screen, listed, pc, frame>>
     ELSE LET ins == InsertReport(DB, ReportRow(current_user[s], f))
          IN /\ reports' = ins.db.reports
             /\ reports_seq' = ins.db.reports_seq
             /\ IF ins.ok
                THEN /\ show_snack(s, <<"Report submitted successfully!">>)
                     /\ Show(s, "blank", {})
                     /\ pc' = [pc EXCEPT ![s] = "stats_total"]
                     /\ frame' = [frame EXCEPT ![s] = Dashboard("user")]
                ELSE /\ show_snack(s, <<"Error submitting report. Please try again.">>)
                     /\ UNCHANGED <<screen, listed, pc, frame>>
  /\ UNCHANGED picking

\* go_back: user_dashboard_screen() begins with page.clean(); its statements
\* come after, one at a time
go_back(s) ==
  /\ Idle(s)
  /\ screen[s] = "report"
  /\ Show(s, "blank", {})
  /\ no_snack(s)
  /\ pc' = [pc EXCEPT ![s] = "stats_total"]
  /\ frame' = [frame EXCEPT ![s] = Dashboard("user")]
  /\ UNCHANGED <<dbvars, current_user>>
  /\ UNCHANGED picking


(************************** the two file pickers ***************************)
\* what a picker hands to its on_result: no file, a file whose read() gives
\* nothing, a file of three bytes, and a file whose read() raises
PickedFile(name, bytes, raises) == [name |-> name, bytes |-> bytes, raises |-> raises]

PickedFiles ==
  {<<>>,
   <<PickedFile("p.jpg", <<>>, "")>>,
   <<PickedFile("p.jpg", <<255, 216, 255>>, "")>>,
   <<PickedFile("p.jpg", <<>>, "Permission denied")>>}

\* the snack of a picker's handler: <<>> when e.files is empty, the except
\* branch's message when read() raises, the error when it reads nothing
PhotoSnack(files, unread, failed, done) ==
  IF files = <<>> THEN <<>>
  ELSE IF files[1].raises /= "" THEN <<failed, files[1].raises>>
  ELSE IF files[1].bytes = <<>> THEN <<unread>>
  ELSE <<done>>

\* file_picker and camera_picker are put into page.overlay once and stay there
\* on every screen; picking[s] holds the pickers whose window is open.  The
\* buttons of the report form open them and return at once, so the session
\* may go on to any screen before a picker answers.
open_file_picker(s) ==
  /\ Idle(s)
  /\ screen[s] = "report"
  /\ picking' = [picking EXCEPT ![s] = @ \cup {"file_picker"}]
  /\ no_snack(s)
  /\ UNCHANGED <<dbvars, current_user, screen, listed, pc, frame>>

open_camera_picker(s) ==
  /\ Idle(s)
  /\ screen[s] = "report"
  /\ picking' = [picking EXCEPT ![s] = @ \cup {"camera_picker"}]
  /\ no_snack(s)
  /\ UNCHANGED <<dbvars, current_user, screen, listed, pc, frame>>

\* handle_file_upload, the on_result of file_picker: the photo goes to
\* photo_state, which the model does not hold; the database and the screen,
\* whichever it is by now, stay as they are
handle_file_upload(s, files) ==
  /\ Idle(s)
  /\ "file_picker" \in picking[s]
  /\ picking' = [picking EXCEPT ![s] = @ \ {"file_picker"}]
  /\ show_snack(s, PhotoSnack(files, "Error: Could not read file",
                              "Error uploading photo:",
                              "Photo uploaded successfully!"))
  /\ UNCHANGED <<dbvars, current_user, screen, listed, pc, frame>>

\* handle_camera_photo, the on_result of camera_picker
handle_camera_photo(s, files) ==
  /\ Idle(s)
  /\ "camera_picker" \in picking[s]
  /\ picking' = [picking EXCEPT ![s] = @ \ {"camera_picker"}]
  /\ show_snack(s, PhotoSnack(files, "Error: Could not read photo",
                              "Error processing photo:",
                              "Photo captured successfully!"))
  /\ UNCHANGED <<dbvars, current_user, screen, listed, pc, frame>>

(****************** the program as its screens drive it *********************)
\* faulty menu items, which C21 must tell from the real ones: one passes a
\* status in another spelling
MenuStatuses_OtherSpelling == {"In progress", "Resolved"}

MenuStatuses == {"In Progress", "Resolved"}
MenuRoles == {"admin", "user"}

\* database d has a row more than now, of those MaxRows counts
Grows(d) == d.users_seq + d.reports_seq + Len(d.admin_logs) > Rows

\* do_register reaches its INSERT
RegisterInserts(f) == RegisterRejected(f) = <<>> /\ ~EmailExists(DB, f.email)

\* the callbacks that add no row, and the statements of do_login
Navigate(s) ==
  \/ \E e \in LoginEmails, p \in LoginPasswords : login_at_select(s, e, p)
  \/ login_goes_on(s)
  \/ go_register(s)
  \/ register_back(s)
  \/ \E i \in 0..2 : on_tab_change(s, i)
  \/ refresh_list(s)
  \/ admin_logout(s)
  \/ user_logout(s)
  \/ refresh_my_reports(s)
  \/ open_report_issue(s)
  \/ go_back(s)

\* the two picker buttons of the report form, and the answer of a picker that
\* is open, on whichever screen the session shows by then
Pickers(s) ==
  \/ open_file_picker(s)
  \/ open_camera_picker(s)
  \/ \E files \in PickedFiles : handle_file_upload(s, files)
  \/ \E files \in PickedFiles : handle_camera_photo(s, files)

\* the callbacks of the register and report forms, each on its own screen; one
\* that may add a row is not begun at the bound
Forms(s, max) ==
  \/ /\ Idle(s) /\ screen[s] = "register"
     /\ \E f \in RegisterDrafts :
           /\ RegisterInserts(f) => RoomForRow(max)
           /\ reg_at_check(s, f)
  \/ reg_at_insert(s)
  \/ /\ Idle(s) /\ screen[s] = "report"
     /\ \E f \in ReportDrafts :
           /\ DraftComplete(f) => RoomForRow(max)
           /\ submit_report(s, f)

\* the statements of the four callbacks of the admin lists after their first
AdminGoesOn(s) ==
  \/ update_report_status_goes_on(s)
  \/ delete_report_goes_on(s)
  \/ update_user_role_goes_on(s)
  \/ delete_user_goes_on(s)
  \/ refresh_at_update(s)

\* every callback the controls of the shown screen offer to session s, with
\* the arguments they pass, a statement at a time; a callback that may add a
\* row is not begun at the bound `rows`, and update_report_status has room
\* for `more` rows and notifications beyond the bounds
StepScreens(s, rows, more) ==
  \/ Navigate(s)
  \/ Forms(s, rows)
  \/ \E id \in listed[s], st \in MenuStatuses :
        /\ RoomForRow(rows + more) /\ RoomForNotification(MaxNotifications + more)
        /\ urs_at_update(s, id, st)
  \/ \E id \in listed[s] :
        /\ Grows(delete_report_db(DB, current_user[s], id).db) => RoomForRow(rows)
        /\ dr_at_select(s, id)
  \/ \E id \in listed[s], r \in MenuRoles :
        /\ Grows(update_user_role_db(DB, current_user[s], id, r)) => RoomForRow(rows)
        /\ uur_at_update(s, id, r)
  \/ \E id \in listed[s] :
        /\ Grows(delete_user_db(DB, current_user[s], id).db) => RoomForRow(rows)
        /\ du_at_select(s, id)
  \/ AdminGoesOn(s)

\* every callback session s may run: those of the shown screen and those of
\* the pickers in the page's overlay
Step(s) ==
  \/ StepScreens(s, MaxRows, 0)
  \/ Pickers(s)

Next == \E s \in Desk : Step(s)

Spec == Init /\ [][Next]_vars

(************* the callbacks of the admin tabs, called directly *************)
\* the statuses of the data model
Statuses == {"Pending", "In Progress", "Resolved"}
\* the ids a call may pass: a list that was loaded before another session
\* deleted a row still offers the row's id, so every id a sequence has handed
\* out, and the one after them, stands for the ids of rows that are gone
ReportIdInputs == 1..(reports_seq + 1)
UserIdInputs == 1..(users_seq + 1)

\* Step with the callbacks of the two admin lists taking any id, and the
\* statuses and roles of their menus
StepApi(s) ==
  \/ Navigate(s)
  \/ Pickers(s)
  \/ Forms(s, MaxRows)
  \/ \E id \in ReportIdInputs, st \in MenuStatuses :
        /\ RoomForRow(MaxRows) /\ RoomForNotification(MaxNotifications)
        /\ urs_at_update(s, id, st)
  \/ \E id \in ReportIdInputs :
        /\ Grows(delete_report_db(DB, current_user[s], id).db) => RoomForRow(MaxRows)
        /\ dr_at_select(s, id)
  \/ \E id \in UserIdInputs, r \in MenuRoles :
        /\ Grows(update_user_role_db(DB, current_user[s], id, r)) => RoomForRow(MaxRows)
        /\ uur_at_update(s, id, r)
  \/ \E id \in UserIdInputs :
        /\ Grows(delete_user_db(DB, current_user[s], id).db) => RoomForRow(MaxRows)
        /\ du_at_select(s, id)
  \/ AdminGoesOn(s)

NextApi == \E s \in Desk : StepApi(s)

SpecApi == Init /\ [][NextApi]_vars

(********************* two sessions on the one database ********************)
\* the database after alice has registered and submitted the first draft of
\* ReportDrafts
SeededDB ==
  LET alice == CHOOSE f \in RegisterDrafts :
                 f.email = "alice@example.com" /\ RegisterRejected(f) = <<>>
      report == CHOOSE f \in ReportDrafts :
                  DraftComplete(f) /\ f.location = "Main St"
      d1 == InsertUser(init_database(EmptyDB), UserRow(alice)).db
      cu == [id |-> d1.users_seq, username |-> alice.username, role |-> "user"]
  IN InsertReport(d1, ReportRow(cu, report)).db

\* a state of Spec: alice has registered, logged in, submitted a report and
\* logged out; both sessions show the login screen
Init2 ==
  /\ users = SeededDB.users
  /\ users_seq = SeededDB.users_seq
  /\ reports = SeededDB.reports
  /\ reports_seq = SeededDB.reports_seq
  /\ notifications = <<>>
  /\ admin_logs = <<>>
  /\ current_user = [s \in Sessions |-> NoUser]
  /\ screen = [s \in Sessions |-> "login"]
  /\ listed = [s \in Sessions |-> {}]
  /\ snack = [s \in Sessions |-> <<>>]
  /\ pc = [s \in Sessions |-> "idle"]
  /\ frame = [s \in Sessions |-> <<>>]
  /\ picking = [s \in Sessions |-> {}]

\* SeededDB after bob has registered too
SeededDB2 ==
  LET bob == CHOOSE f \in RegisterDrafts :
               f.username = "bob" /\ f.email = "bob@example.com"
  IN InsertUser(SeededDB, UserRow(bob)).db

\* alice has registered, logged in, submitted a report and logged out, and
\* bob has registered; both sessions show the login screen
Init3 ==
  /\ users = SeededDB2.users
  /\ users_seq = SeededDB2.users_seq
  /\ reports = SeededDB2.reports
  /\ reports_seq = SeededDB2.reports_seq
  /\ notifications = <<>>
  /\ admin_logs = <<>>
  /\ current_user = [s \in Sessions |-> NoUser]
  /\ screen = [s \in Sessions |-> "login"]
  /\ listed = [s \in Sessions |-> {}]
  /\ snack = [s \in Sessions |-> <<>>]
  /\ pc = [s \in Sessions |-> "idle"]
  /\ frame = [s \in Sessions |-> <<>>]
  /\ picking = [s \in Sessions |-> {}]

\* the people who log in at the two sessions, with their passwords
Logins2 == {<<"admin@community.com", "admin123">>, <<"alice@example.com", "secret1">>}

\* rows of notifications in Spec2: update_report_status is not begun at the
\* bound, and two sessions that begin it together add two
MaxNotifications2 == 1

\* a session that logs in, works at the admin lists and logs out; the bound
\* has room for bob's row
Step2(s) ==
  \/ \E l \in Logins2 : login_at_select(s, l[1], l[2])
  \/ login_goes_on(s)
  \/ \E i \in 0..1 : on_tab_change(s, i)
  \/ admin_logout(s)
  \/ user_logout(s)
  \/ \E id \in listed[s], st \in MenuStatuses :
        /\ RoomForRow(MaxRows + 1) /\ RoomForNotification(MaxNotifications2)
        /\ urs_at_update(s, id, st)
  \/ \E id \in listed[s] :
        /\ Grows(delete_report_db(DB, current_user[s], id).db) => RoomForRow(MaxRows + 1)
        /\ dr_at_select(s, id)
  \/ \E id \in listed[s], r \in MenuRoles :
        /\ Grows(update_user_role_db(DB, current_user[s], id, r)) => RoomForRow(MaxRows + 1)
        /\ uur_at_update(s, id, r)
  \/ \E id \in listed[s] :
        /\ Grows(delete_user_db(DB, current_user[s], id).db) => RoomForRow(MaxRows + 1)
        /\ du_at_select(s, id)
  \/ AdminGoesOn(s)

Next2 == \E s \in Sessions : Step2(s)

Spec2 == Init3 /\ [][Next2]_vars

(********************** two sessions registering ***************************)
\* a session at the login and register screens
StepRegister(s) ==
  \/ go_register(s)
  \/ register_back(s)
  \/ \E f \in RegisterDrafts :
        /\ RegisterInserts(f) => RoomForRow(MaxRows)
        /\ reg_at_check(s, f)
  \/ reg_at_insert(s)

NextRegister == \E s \in Sessions : StepRegister(s)

SpecRegister == Init /\ [][NextRegister]_vars

(************************* the app, started again ***************************)
\* rows of users, reports and admin_logs together in SpecRestart
RestartRows == 3

\* the module runs init_database() when the process starts; the sessions of
\* the process before are gone
restart ==
  /\ Grows(init_database(DB)) => RoomForRow(RestartRows)
  /\ SetDB(init_database(DB))
  /\ current_user' = [s \in Sessions |-> NoUser]
  /\ screen' = [s \in Sessions |-> "login"]
  /\ listed' = [s \in Sessions |-> {}]
  /\ snack' = [s \in Sessions |-> <<>>]
  /\ pc' = [s \in Sessions |-> "idle"]
  /\ frame' = [s \in Sessions |-> <<>>]
  /\ picking' = [s \in Sessions |-> {}]

\* one more thing typed into the register form: the name of the seeded admin
\* with bob's address
RestartDrafts ==
  {RegisterDraft("admin", "bob@example.com", "", "secret1", "secret1")}

\* the callbacks of Step within the bound RestartRows, update_report_status
\* with room for the row of its log entry, with the one more draft
StepRestart(s) ==
  \/ StepScreens(s, RestartRows, 1)
  \/ Pickers(s)
  \/ \E f \in RestartDrafts :
        /\ RegisterInserts(f) => RoomForRow(RestartRows)
        /\ reg_at_check(s, f)

\* one session at work, and the process started again at any time
NextRestart ==
  \/ \E s \in Desk : StepRestart(s)
  \/ restart

SpecRestart == Init /\ [][NextRestart]_vars

(************** several status updates of the one report ******************)
\* the room update_report_status has beyond the bounds in SpecUpdates
MoreUpdates == 2

\* one session at work as in Spec on the database with alice's report, with
\* room for update_report_status to run several times
StepUpdates(s) ==
  \/ StepScreens(s, MaxRows, MoreUpdates)
  \/ Pickers(s)

NextUpdates == \E s \in Desk : StepUpdates(s)

SpecUpdates == Init2 /\ [][NextUpdates]_vars

(***************************** status updates *****************************)
\* the rows the status update session s is running hands to add_notification
\* (for the user_id its SELECT fetched) and to add_admin_log
StatusNotification(s) ==
  [user_id |-> frame[s].result[1], report_id |-> frame[s].report_id,
   message |-> NotificationMessage(frame[s].new_status), type |-> "status_update",
   is_read |-> FALSE]
StatusLogEntry(s) ==
  [admin_id |-> current_user[s].id, action |-> "UPDATE_STATUS",
   target_type |-> "report", target_id |-> frame[s].report_id,
   details |-> <<"Status changed to", frame[s].new_status>>]

\* C1: every status update of an existing report (one whose row the call's
\* SELECT fetched) appends exactly one notification, addressed to the report's
\* submitter and naming the report and the new status, and exactly one audit
\* log entry naming the acting admin and the report: the call's
\* add_notification adds that row and its add_admin_log adds that entry, also
\* when the report had the status before.
C1_UpdateAppendsNotificationAndLog ==
  [][\A s \in Sessions :
       /\ (pc[s] = "urs_notify" /\ frame[s].result /= <<>> /\ urs_at_notify(s))
          => notifications' = Append(notifications, StatusNotification(s))
       /\ (pc[s] = "urs_log" /\ frame[s].result /= <<>> /\ urs_at_log(s))
          => admin_logs' = Append(admin_logs, StatusLogEntry(s))]_vars

\* C2: the side effects of a status update are atomic with it: in no state
\* another session can read does a report carry a status set by an update
\* while the notification or the audit log entry of that update is missing.
\* (A report leaves "Pending" only by an update.)
C2_StatusNeverAheadOfItsRecords ==
  \A id \in DOMAIN reports :
    reports[id].status /= "Pending"
    => /\ \E i \in DOMAIN notifications :
             /\ notifications[i].report_id = id
             /\ notifications[i].message = NotificationMessage(reports[id].status)
       /\ \E j \in DOMAIN admin_logs :
             /\ admin_logs[j].action = "UPDATE_STATUS"
             /\ admin_logs[j].target_id = id
             /\ admin_logs[j].details = <<"Status changed to", reports[id].status>>

(***************************** who may call ********************************)
\* the role the users table holds for the user session s is logged in as
StoredRole(s) ==
  IF current_user[s].id \in DOMAIN users THEN users[current_user[s].id].role
  ELSE ""

\* the snack bars of the except branches of the four admin callbacks
ErrorSnacks == {<<"Error updating status">>, <<"Error deleting report">>,
                <<"Error updating user role">>, <<"Error deleting user">>}

\* the call of session s is refused at once: it is over, an error is shown and
\* no table has changed
Refused(s) ==
  /\ pc'[s] = "idle"
  /\ snack'[s] \in ErrorSnacks
  /\ UNCHANGED <<users, reports, notifications, admin_logs>>

\* session s begins one of the four callbacks of the admin lists
BeginsAdminCall(s) ==
  \/ \E id \in ReportIdInputs, st \in MenuStatuses : urs_at_update(s, id, st)
  \/ \E id \in ReportIdInputs : dr_at_select(s, id)
  \/ \E id \in UserIdInputs, r \in MenuRoles : uur_at_update(s, id, r)
  \/ \E id \in UserIdInputs : du_at_select(s, id)

\* C3: when the user a session acts for has role "user", each of
\* update_report_status, delete_report, update_user_role and delete_user it
\* begins is refused: it shows an error and leaves users, reports,
\* notifications and the audit log unchanged.
C3_UserRoleIsRefused ==
  [][\A s \in Sessions :
       (StoredRole(s) = "user" /\ BeginsAdminCall(s)) => Refused(s)]_vars

\* C4 (a status outside "Pending", "In Progress", "Resolved" is rejected) has
\* no formula: update_report_status is called at four places, the two menu
\* items of a row and the two buttons of the detail dialog, and each passes
\* one of MenuStatuses, so in no behaviour of the program does a call carry
\* another status.  The callback itself does not look at new_status before
\* its UPDATE.

(******************************* submitting ********************************)
\* C5: submit_report with a complete draft, by a logged-in user whose row
\* exists, adds exactly one report, and that report's status is "Pending"
\* whatever the draft holds; with an incomplete draft it adds none; the
\* reports there were keep their rows.
C5_SubmittedReportIsPending ==
  [][\A s \in Sessions, f \in ReportDrafts :
       submit_report(s, f)
       => /\ \A r \in DOMAIN reports :
               r \in DOMAIN reports' /\ reports'[r] = reports[r]
          /\ (DraftComplete(f) /\ current_user[s].id \in DOMAIN users)
             => /\ DOMAIN reports' = DOMAIN reports \cup {reports_seq + 1}
                /\ reports'[reports_seq + 1].status = "Pending"
                /\ snack'[s] = <<"Report submitted successfully!">>
          /\ ~DraftComplete(f) => reports' = reports]_vars

\* a session has just submitted a report, of high priority, and it is Pending
C5_Submitted ==
  \E s \in Sessions, r \in DOMAIN reports :
    /\ snack[s] = <<"Report submitted successfully!">>
    /\ r = reports_seq
    /\ reports[r].user_id = current_user[s].id
    /\ reports[r].priority = clean_priority(PriorityOptions[3])
    /\ reports[r].status = "Pending"

(**************************** no terminal status ***************************)
\* session s, idle on the Reports tab, is offered the row of report id, and
\* the bounds leave room for one more update_report_status
OffersUpdate(s, id) ==
  /\ Idle(s)
  /\ screen[s] = "admin_reports"
  /\ id \in listed[s]
  /\ RoomForRow(MaxRows + MoreUpdates)
  /\ RoomForNotification(MaxNotifications + MoreUpdates)

\* a step of the program in which session s begins
\* update_report_status(id, st) is possible
CanBeginUpdate(s, id, st) ==
  ENABLED (/\ NextUpdates
           /\ pc'[s] = "urs_select"
           /\ frame'[s].report_id = id
           /\ frame'[s].new_status = st)

\* C6 as the specification states it: no status is terminal, and from each
\* of "Pending", "In Progress", "Resolved" each of the three, "Pending" too,
\* can be set by an update_report_status call: whenever an admin is offered
\* the row of a report, a call that passes the status can begin.
C6_EveryStatusFromEveryStatus ==
  \A s \in Sessions, id \in DOMAIN reports, st \in Statuses :
    OffersUpdate(s, id) => CanBeginUpdate(s, id, st)

\* C6, amended: from each of "Pending", "In Progress", "Resolved" each of
\* "In Progress" and "Resolved", the same status again too, can be set by an
\* update_report_status call (whenever an admin is offered the row of a
\* report, a call with either can begin, and its UPDATE leaves the report with
\* exactly that status whatever it had), so neither is terminal; no call
\* passes "Pending", and a report that has left it never returns to it; and
\* the status of a report changes in no step other than the UPDATE of an
\* update_report_status on that report.
C6_MenuStatusFromEveryStatus ==
  /\ [](\A s \in Sessions, id \in DOMAIN reports, st \in MenuStatuses :
          OffersUpdate(s, id) => CanBeginUpdate(s, id, st))
  /\ [][/\ \A s \in Sessions, id \in DOMAIN reports, st \in MenuStatuses :
             urs_at_update(s, id, st)
             => id \in DOMAIN reports' /\ reports'[id].status = st
        /\ \A id \in DOMAIN reports \cap DOMAIN reports' :
             reports'[id].status /= reports[id].status
             => /\ reports'[id].status /= "Pending"
                /\ \E s \in Sessions :
                     urs_at_update(s, id, reports'[id].status)]_vars

\* the audit log entry of a status update of report id to status st
IsStatusLog(entry, id, st) ==
  /\ entry.action = "UPDATE_STATUS"
  /\ entry.target_id = id
  /\ entry.details = <<"Status changed to", st>>

\* a report has left "Pending" for "Resolved", then "Resolved" for
\* "In Progress", then "In Progress" for "Resolved", by three calls of the one
\* admin, and is listed for a fourth
C6_ResolvedReopenedResolved ==
  \E s \in Sessions, id \in DOMAIN reports :
    /\ Idle(s)
    /\ screen[s] = "admin_reports"
    /\ id \in listed[s]
    /\ Len(admin_logs) = 3
    /\ IsStatusLog(admin_logs[1], id, "Resolved")
    /\ IsStatusLog(admin_logs[2], id, "In Progress")
    /\ IsStatusLog(admin_logs[3], id, "Resolved")
    /\ reports[id].status = "Resolved"

(****************************** deleting users *****************************)
\* the database after the step
DBNext == [users |-> users', users_seq |-> users_seq',
           reports |-> reports', reports_seq |-> reports_seq',
           notifications |-> notifications', admin_logs |-> admin_logs']

\* C7: delete_user cascades. When an admin has called delete_user on a user
\* U who owns a report (U is not the caller), the call's DELETE leaves U no
\* row of users and the list of all reports without a report of U, and the
\* call goes on to add an audit log entry with action "DELETE" and target
\* type "user" for U.
C7_DeleteUserCascades ==
  [][\A s \in Sessions :
       /\ (/\ pc[s] = "du_delete"
           /\ StoredRole(s) = "admin"
           /\ frame[s].user_id /= current_user[s].id
           /\ \E r \in DOMAIN reports : reports[r].user_id = frame[s].user_id
           /\ du_at_delete(s))
          => /\ frame[s].user_id \notin DOMAIN users'
             /\ \A r \in load_community_reports(DBNext) :
                   reports'[r].user_id /= frame[s].user_id
             /\ pc'[s] = "du_log"
       /\ (/\ pc[s] = "du_log"
           /\ StoredRole(s) = "admin"
           /\ du_at_log(s))
          => \E j \in DOMAIN admin_logs' \ DOMAIN admin_logs :
                /\ admin_logs'[j].action = "DELETE"
                /\ admin_logs'[j].target_type = "user"
                /\ admin_logs'[j].target_id = frame[s].user_id]_vars

(******************************* own role **********************************)
\* C8: update_user_role called by an admin on the admin's own row always
\* fails: it shows an error, the admin's role is as before and the audit log
\* has no new entry.
C8_OwnRoleIsRefused ==
  [][\A s \in Sessions, r \in MenuRoles :
       (StoredRole(s) = "admin" /\ uur_at_update(s, current_user[s].id, r))
       => /\ pc'[s] = "idle"
          /\ snack'[s] \in ErrorSnacks
          /\ users' = users
          /\ admin_logs' = admin_logs]_vars

(************************** reports that are not there *********************)
\* C9: update_report_status with the id of no report fails: it shows an error
\* and writes nothing, no notification and no audit log entry.
C9_UpdateOfNoReportWritesNothing ==
  [][\A s \in Sessions :
       /\ \A id \in ReportIdInputs \ DOMAIN reports, st \in MenuStatuses :
            urs_at_update(s, id, st)
            => pc'[s] = "idle" /\ snack'[s] \in ErrorSnacks
       /\ (/\ pc[s] \in {"urs_select", "urs_notify", "urs_log"}
           /\ frame[s].report_id \notin DOMAIN reports
           /\ update_report_status_goes_on(s))
          => /\ notifications' = notifications
             /\ admin_logs' = admin_logs]_vars

\* C10: delete_report with the id of no report fails: it shows an error, not
\* the snack bar of a successful deletion, and appends no audit log entry.
C10_DeleteOfNoReportFails ==
  [][\A s \in Sessions :
       /\ \A id \in ReportIdInputs \ DOMAIN reports :
            dr_at_select(s, id)
            => pc'[s] = "idle" /\ snack'[s] \in ErrorSnacks
       /\ (/\ pc[s] \in {"dr_delete", "dr_log", "dr_reload"}
           /\ frame[s].report = <<>>
           /\ delete_report_goes_on(s))
          => /\ snack'[s] /= <<"Report deleted successfully!">>
             /\ admin_logs' = admin_logs]_vars

(***************************** deleting reports ****************************)
\* C11: delete_report by an admin on a report that exists, whatever happened
\* to it before (status updates and their notifications included), removes
\* the report and appends exactly one audit log entry, with action "DELETE",
\* target type "report" and the details "Deleted: {problem_type} - {location}"
\* of the report as it was.
C11_DeleteReportRemovesAndLogs ==
  [][\A s \in Sessions :
       /\ (/\ pc[s] = "dr_delete"
           /\ StoredRole(s) = "admin"
           /\ frame[s].report_id \in DOMAIN reports
           /\ dr_at_delete(s))
          => /\ frame[s].report_id \notin DOMAIN reports'
             /\ pc'[s] = "dr_log"
       /\ (/\ pc[s] = "dr_log"
           /\ StoredRole(s) = "admin"
           /\ frame[s].report /= <<>>
           /\ dr_at_log(s))
          => admin_logs' =
               Append(admin_logs,
                      [admin_id |-> current_user[s].id, action |-> "DELETE",
                       target_type |-> "report", target_id |-> frame[s].report_id,
                       details |-> <<"Deleted:", frame[s].report[1], "-",
                                     frame[s].report[2]>>])]_vars

(********************************* counts **********************************)
\* C12: in every state, so after any sequence of submit_report and
\* delete_report, the total of get_report_stats is the number of rows
\* load_community_reports fetches.
C12_TotalIsListLength ==
  \A s \in Sessions :
    get_report_stats(DB, current_user[s]).total = Len(community_reports_data(DB))

\* a report was submitted and an admin has just deleted it, next to a user
\* who is still there
C12_SubmittedAndDeleted ==
  \E s \in Sessions :
    /\ snack[s] = <<"Report deleted successfully!">>
    /\ reports_seq = 1
    /\ listed[s] = {}
    /\ Cardinality(DOMAIN users) = 2
    /\ get_report_stats(DB, current_user[s]).total = 0

\* the count get_report_stats gives for a status
StatOf(stats, status) ==
  CASE status = "Pending" -> stats.pending
    [] status = "In Progress" -> stats.in_progress
    [] status = "Resolved" -> stats.resolved

\* C13: get_report_stats gives, for each of pending, in_progress and resolved,
\* the number of stored reports with that status: the row submit_report
\* inserts for a complete draft raises pending by one and leaves the other
\* two, and an update_report_status that takes a report from status a to
\* another status b lowers the count of a by one, raises the count of b by one
\* and leaves the third and the total.
C13_StatsFollowTheReports ==
  \A s \in Sessions :
    LET cu == current_user[s]
        before == get_report_stats(DB, cu)
    IN /\ \A st \in Statuses :
            StatOf(before, st)
              = Cardinality({r \in DOMAIN reports : reports[r].status = st})
       /\ \A f \in ReportDrafts :
            LET ins == InsertReport(DB, ReportRow(cu, f))
                submitted == get_report_stats(ins.db, cu)
            IN (DraftComplete(f) /\ ins.ok)
               => /\ submitted.pending = before.pending + 1
                  /\ submitted.in_progress = before.in_progress
                  /\ submitted.resolved = before.resolved
                  /\ submitted.total = before.total + 1
       /\ \A id \in DOMAIN reports : \A b \in Statuses \ {reports[id].status} :
            LET a == reports[id].status
                updated == get_report_stats(
                             update_report_status_db(DB, cu, id, b), cu)
            IN a \in Statuses
               => /\ StatOf(updated, a) = StatOf(before, a) - 1
                  /\ StatOf(updated, b) = StatOf(before, b) + 1
                  /\ \A c \in Statuses \ {a, b} :
                        StatOf(updated, c) = StatOf(before, c)
                  /\ updated.total = before.total

\* an update has just taken the one report from "Pending" to "In Progress"
C13_OneInProgress ==
  \E s \in Sessions :
    /\ snack[s] = <<"Status updated to", "In Progress">>
    /\ get_report_stats(DB, current_user[s]).pending = 0
    /\ get_report_stats(DB, current_user[s]).in_progress = 1
    /\ get_report_stats(DB, current_user[s]).total = 1

(******************************* registering *******************************)
\* C14: do_register with the email of an existing user fails and adds no user:
\* the call ends at its SELECT, the users are as before, the success snack bar
\* is not shown, and a draft that passes the form's checks is answered
\* "Email already exists!".
C14_DuplicateEmailIsRefused ==
  [][\A s \in Sessions, f \in RegisterDrafts :
       ((\E u \in DOMAIN users : users[u].email = f.email) /\ reg_at_check(s, f))
       => /\ users' = users
          /\ pc'[s] = "idle"
          /\ snack'[s] /= <<"Account created successfully!">>
          /\ screen'[s] = "register"
          /\ RegisterRejected(f) = <<>> => snack'[s] = <<"Email already exists!">>]_vars

\* alice is registered, and a session that tried to register her address
\* again has been refused
C14_SecondAliceRefused ==
  \E s \in Sessions :
    /\ snack[s] = <<"Email already exists!">>
    /\ screen[s] = "register"
    /\ \E u \in DOMAIN users : users[u].email = "alice@example.com"

(***************************** stored labels *******************************)
\* the emoji the options of the two dropdowns start with
Decorations ==
  {Head(ProblemTypeOptions[i]) : i \in DOMAIN ProblemTypeOptions}
    \cup {Head(PriorityOptions[i]) : i \in DOMAIN PriorityOptions}

\* C15: submit_report stores the canonical label, not the decorated text of
\* the dropdown: the priority of every stored report is one of Low, Medium,
\* High, Emergency, and its problem type starts with no emoji.
C15_StoredLabelsAreCanonical ==
  \A r \in DOMAIN reports :
    /\ reports[r].priority \in {<<"Low">>, <<"Medium">>, <<"High">>, <<"Emergency">>}
    /\ Head(reports[r].problem_type) \notin Decorations

(********************************* lists ***********************************)
\* seq lists ids in strictly descending order
StrictlyDescending(seq) ==
  \A i, j \in DOMAIN seq : i < j => seq[i] > seq[j]

\* C16: for a logged-in session load_my_reports fetches exactly the reports
\* whose user_id is the session's user, none of another user and none of
\* its own missing, and both load_my_reports and load_community_reports
\* fetch their rows in strictly descending order of id.
C16_MineAndDescending ==
  \A s \in Sessions :
    LET mine == my_reports_data(DB, current_user[s])
        all == community_reports_data(DB)
    IN /\ current_user[s].id /= None
          => \A r \in DOMAIN reports :
               (\E i \in DOMAIN mine : mine[i] = r)
                 <=> reports[r].user_id = current_user[s].id
       /\ \A i \in DOMAIN mine : mine[i] \in DOMAIN reports
       /\ StrictlyDescending(mine)
       /\ StrictlyDescending(all)

\* alice is logged in and has two reports, and an admin's list holds both
C16_TwoOfMine ==
  \E s \in Sessions :
    /\ screen[s] = "user"
    /\ my_reports_data(DB, current_user[s]) = <<2, 1>>
    /\ community_reports_data(DB) = <<2, 1>>

(************************* writes that fail on the way **********************)
\* C17: when the notification or the audit log entry of a status update is
\* not written, the failure does not vanish: the call does not go on as it
\* does after a write that succeeded, to the snack bar of a success.
C17_FailedWriteIsShown ==
  [][\A s \in Sessions :
       /\ (/\ pc[s] = "urs_notify"
           /\ frame[s].result /= <<>>
           /\ urs_at_notify(s)
           /\ notifications' = notifications)
          => pc'[s] /= "urs_log"
       /\ (/\ pc[s] = "urs_log"
           /\ urs_at_log(s)
           /\ admin_logs' = admin_logs)
          => pc'[s] /= "urs_reload"]_vars

(************************ where notifications come from *********************)
\* C18: notifications are created by update_report_status only: a step that
\* changes the notifications is the add_notification of an
\* update_report_status, which appends one row about the call's report, and
\* no step of submit_report, delete_report, do_register, update_user_role or
\* delete_user changes them.
C18_OnlyUpdatesNotify ==
  [][notifications' /= notifications
     => /\ \E s \in Sessions :
             /\ pc[s] = "urs_notify"
             /\ urs_at_notify(s)
             /\ Len(notifications') = Len(notifications) + 1
             /\ notifications'[Len(notifications')].report_id = frame[s].report_id
        /\ \A s \in Sessions :
             ~ \/ \E f \in ReportDrafts : submit_report(s, f)
               \/ \E id \in ReportIdInputs : dr_at_select(s, id)
               \/ delete_report_goes_on(s)
               \/ \E f \in RegisterDrafts : reg_at_check(s, f)
               \/ reg_at_insert(s)
               \/ \E id \in UserIdInputs, r \in MenuRoles : uur_at_update(s, id, r)
               \/ update_user_role_goes_on(s)
               \/ \E id \in UserIdInputs : du_at_select(s, id)
               \/ delete_user_goes_on(s)]_vars

\* alice's report was submitted and then deleted by an admin who had changed
\* no status: two users, no report, one audit log entry, no notification
C18_DeletedUnnoticed ==
  \E s \in Sessions :
    /\ snack[s] = <<"Report deleted successfully!">>
    /\ reports_seq = 1 /\ reports = <<>>
    /\ Len(admin_logs) = 1
    /\ notifications = <<>>

(************************** reading notifications **************************)
\* C19 (markAllRead twice leaves the unread count at 0) has no formula:
\* src/app.py holds the is_read column, which add_notification leaves at its
\* DEFAULT FALSE, and no statement that sets it; get_notifications_count,
\* which counts the rows with is_read = FALSE, is called nowhere.  There is no
\* operation of the program the claim could be checked on.

(******************************* admins ************************************)
\* C20: in every reachable state at least one user has role "admin": no
\* sequence of update_user_role and delete_user leaves the system without one.
C20_AnAdminRemains ==
  \E u \in DOMAIN users : users[u].role = "admin"

(***************************** stored statuses *****************************)
\* C21: in every state the program reaches through its screens, the status of
\* every stored report is one of "Pending", "In Progress", "Resolved".
C21_StoredStatusIsKnown ==
  \A r \in DOMAIN reports : reports[r].status \in Statuses

\* a menu item has set a report to "In Progress": the update's notification
\* and audit log entry are there
C21_InProgressStored ==
  \E r \in DOMAIN reports :
    /\ reports[r].status = "In Progress"
    /\ Len(notifications) = 1
    /\ Len(admin_logs) = 1
    /\ admin_logs[1].action = "UPDATE_STATUS"

(****************************** the audit log ******************************)
\* C22: the audit log is append-only. No step removes or alters an entry: the
\* log is never shorter after a step, and every entry it had is still at its
\* place with its content. (src/app.py has no operation that clears it.)
C22_AuditLogOnlyGrows ==
  [][/\ Len(admin_logs') >= Len(admin_logs)
     /\ \A k \in 1..Len(admin_logs) : admin_logs'[k] = admin_logs[k]]_vars

\* the admin changed alice's role and then deleted her: the entry of the role
\* change is still the first of the log
C22_RoleChangeThenDelete ==
  /\ Len(admin_logs) = 2
  /\ admin_logs[1].action = "UPDATE_ROLE"
  /\ admin_logs[2].action = "DELETE"
  /\ admin_logs[2].target_type = "user"
  /\ admin_logs[1].target_id = admin_logs[2].target_id

(************************** two admins, one report **************************)
\* the notifications about report id, by their place in the table
NotificationsAbout(id) ==
  {k \in 1..Len(notifications) : notifications[k].report_id = id}

\* C23: when two admin sessions have run update_report_status on the same
\* report concurrently and both calls are over, the notification inserted
\* last for the report names the status the report has, whatever the order
\* of their statements was.
C23_LastNotificationNamesStatus ==
  (\A s \in Sessions : pc[s] = "idle")
  => \A id \in DOMAIN reports :
       LET ks == NotificationsAbout(id)
           last == CHOOSE k \in ks : \A j \in ks : j <= k
       IN ks /= {}
          => notifications[last].message = NotificationMessage(reports[id].status)

(**************************** who a session is ******************************)
\* C24: the current_user of every logged-in session is a user that exists,
\* and its role is the role stored for that user: no change of role and no
\* deletion leaves a session with a role its user does not have.
C24_SessionRoleIsStoredRole ==
  \A s \in Sessions :
    current_user[s] /= NoUser
    => /\ current_user[s].id \in DOMAIN users
       /\ current_user[s].role = StoredRole(s)

(************************ the way to the admin tabs *************************)
\* the statements of the four callbacks of the admin lists, up to the queries
\* of get_report_stats, and the last statement of refresh_stats
AdminCallAt == {"urs_select", "urs_notify", "urs_log", "urs_reload",
                "dr_delete", "dr_log", "dr_reload", "uur_log", "uur_reload",
                "du_delete", "du_log", "du_reload", "refresh_update"}

\* C25: a session comes to the admin dashboard only by a do_login whose
\* matched row has role "admin": the dashboard is shown by the last statement
\* of a login as admin, and a login takes the session's user and role from a
\* row of users. A session logged in with role "user" is on no admin tab and
\* can take none of update_report_status, delete_report, update_user_role and
\* delete_user, whatever it is called with and whatever failed logins, logouts
\* and other logins came before.
C25_AdminTabsOnlyByAdminLogin ==
  [][\A s \in Sessions :
       /\ (screen[s] \notin AdminScreens /\ screen'[s] \in AdminScreens)
          => /\ dash_at_add(s)
             /\ current_user[s].role = "admin"
       /\ (current_user'[s] /= current_user[s] /\ current_user'[s] /= NoUser)
          => /\ current_user'[s].id \in DOMAIN users
             /\ current_user'[s].role = users[current_user'[s].id].role
             /\ pc'[s] = (IF current_user'[s].role = "admin" THEN "dash_list"
                          ELSE "stats_total")
       /\ current_user[s].role = "user"
          => /\ screen[s] \notin AdminScreens
             /\ pc[s] \notin AdminCallAt
             /\ ~BeginsAdminCall(s)]_vars

\* a session that worked as admin is now logged in with role "user" and has
\* the report form open
C25_UserAfterAdmin ==
  \E s \in Sessions :
    /\ current_user[s].role = "user"
    /\ screen[s] = "report"
    /\ Len(admin_logs) >= 1
    /\ admin_logs[1].admin_id /= current_user[s].id

(************************** the statistics, read *****************************)
\* C26: the stats get_report_stats has read satisfy
\* total = pending + in_progress + resolved, also when another session
\* submits, transitions or deletes a report between its count queries.
C26_TotalIsSumOfStatuses ==
  \A s \in Sessions :
    pc[s] \in {"stats_mine", "dash_my_reports", "dash_add", "refresh_update"}
    => frame[s].stats.total = frame[s].stats.pending + frame[s].stats.in_progress
                              + frame[s].stats.resolved

(************************* registering at once ******************************)
\* the row the INSERT of session s would add meets a row with its email or
\* its username
MeetsRow(s) ==
  \E u \in DOMAIN users : \/ users[u].email = frame[s].email
                          \/ users[u].username = frame[s].username

\* C27: no two users share an email or a username, however the statements of
\* concurrent do_register calls interleave; when a session has passed the
\* email check and another session's INSERT has then taken its email or
\* username, its own INSERT adds no row and it ends with the failure snack,
\* still on the register screen.
C27_ConcurrentRegisterKeepsUnique ==
  [][/\ \A u \in DOMAIN users' :
          \A v \in DOMAIN users' \ {u} :
             /\ users'[u].email /= users'[v].email
             /\ users'[u].username /= users'[v].username
     /\ \A s \in Sessions :
          (pc[s] = "reg_insert" /\ MeetsRow(s) /\ reg_at_insert(s))
          => /\ users' = users
             /\ snack'[s] = <<"Registration failed. Please try again.">>
             /\ screen'[s] = "register"]_vars

\* both sessions passed the email check with bob's address before either
\* inserted; one has inserted and is back at the login screen, the other's
\* INSERT failed
C27_OneOfTwoRegistered ==
  \E s \in Sessions :
    \E t \in Sessions \ {s} :
      /\ snack[s] = <<"Account created successfully!">>
      /\ screen[s] = "login"
      /\ snack[t] = <<"Registration failed. Please try again.">>
      /\ screen[t] = "register"
      /\ Cardinality({u \in DOMAIN users : users[u].email = "bob@example.com"}) = 1
      /\ Cardinality(DOMAIN users) = 2

(************************** rows that refer to rows *************************)
\* every user_id of a report and of a notification and every admin_id of the
\* audit log is the id of a user, every report_id of a notification the id of
\* a report
ReferencesHold(us, rs, ns, ls) ==
  /\ \A r \in DOMAIN rs : rs[r].user_id \in DOMAIN us
  /\ \A k \in 1..Len(ns) : /\ ns[k].user_id \in DOMAIN us
                            /\ ns[k].report_id \in DOMAIN rs
  /\ \A k \in 1..Len(ls) : ls[k].admin_id \in DOMAIN us

\* C28: in every state each reports.user_id, notifications.user_id and
\* admin_logs.admin_id is an existing user and each notifications.report_id an
\* existing report; the DELETE of delete_report on a report that has
\* notifications, and the DELETE of delete_user on a user that has reports,
\* notifications or audit log entries, fails: the call ends with its error,
\* and users, reports, notifications and the audit log stay as they were.
C28_ReferencesAlwaysHold ==
  [][/\ ReferencesHold(users, reports, notifications, admin_logs)
     /\ ReferencesHold(users', reports', notifications', admin_logs')
     /\ \A s \in Sessions :
          /\ ( /\ pc[s] = "dr_delete"
               /\ dr_at_delete(s)
               /\ \E k \in 1..Len(notifications) :
                     notifications[k].report_id = frame[s].report_id )
             => /\ UNCHANGED <<users, reports, notifications, admin_logs>>
                /\ pc'[s] = "idle"
                /\ snack'[s] = <<"Error deleting report">>
          /\ ( /\ pc[s] = "du_delete"
               /\ du_at_delete(s)
               /\ \/ \E r \in DOMAIN reports : reports[r].user_id = frame[s].user_id
                  \/ \E k \in 1..Len(notifications) :
                        notifications[k].user_id = frame[s].user_id
                  \/ \E k \in 1..Len(admin_logs) :
                        admin_logs[k].admin_id = frame[s].user_id )
             => /\ UNCHANGED <<users, reports, notifications, admin_logs>>
                /\ pc'[s] = "idle"
                /\ snack'[s] = <<"Error deleting user">>]_vars

\* the delete of a report that has a notification was refused
C28_ReportDeleteRefused ==
  \E s \in Sessions :
    /\ snack[s] = <<"Error deleting report">>
    /\ \E k \in 1..Len(notifications) :
          /\ notifications[k].report_id \in DOMAIN reports
          /\ notifications[k].report_id \in listed[s]

(***************************** seeding twice ********************************)
\* the users that have the seeded admin's email
SeededEmailUsers(us) ==
  {u \in DOMAIN us : us[u].email = "admin@community.com"}

\* C29: after a run of init_database, whatever state the database was in,
\* exactly one user has the email admin@community.com; a run that finds the
\* email inserts no user and changes no row.
C29_SeedingIsIdempotent ==
  [][restart
     => /\ Cardinality(SeededEmailUsers(users')) = 1
        /\ SeededEmailUsers(users) /= {}
           => UNCHANGED <<users, reports, notifications, admin_logs>>]_vars

====
